---- MODULE Spec2Model ----
(***************************************************************************)
(* A model of the service core of the p2p runtime (src/src/service.rs) and *)
(* of its background task manager (src/src/service/future_task.rs).        *)
(*                                                                         *)
(* The Service is a stream polled by one task.  One poll turn is modelled  *)
(* as a walk through the phases of Stream::poll (head check, listen_poll,  *)
(* session_poll, user_task_poll, tail check); every handler of             *)
(* handle_session_event and handle_service_task is one action, translated  *)
(* with every call it makes.  Handlers are written as operators from a     *)
(* record of the service's fields to the record after the call, so that a  *)
(* handler that calls another one is the composition of the two.           *)
(*                                                                         *)
(* The tasks that run beside the core (sessions, protocol handle streams,  *)
(* listen / dial / handshake futures) are the environment: they act        *)
(* through the channels and atomics they share with the core.              *)
(***************************************************************************)
EXTENDS Naturals, Integers, Sequences, FiniteSets, Bags, TLC

(***************************************************************************)
(* Bounds of the model                                                     *)
(***************************************************************************)
\* session_open is not taken once next_session has reached MaxSession
MaxSession == 2
\* capacity of a session's quick / normal event queue (SEND_SIZE scaled down)
QueueCap == 1
\* capacity of a protocol handle's channel (RECEIVED_SIZE scaled down)
HandleCap == 1
\* longest dispatch buffer kept between two handler calls
MaxBuf == 2
\* listen / dial / handshake futures in flight, and length of pending_tasks
MaxInflight == 2
\* background tasks the FutureTaskManager is given in one run
MaxTasks == 3
\* capacity of the manager's task channel and id channel (SEND_SIZE scaled down)
ChanCap == 2

(***************************************************************************)
(* Configuration under which the core is checked                           *)
(***************************************************************************)
\* ids of protocol_configs
Protos == {1, 2}
\* protocols the user sends messages on
MsgProtos == {1}
\* remote public keys a handshake can yield
Keys == {1, 2}
\* transport parts of the multiaddrs in use
Bases == {1}

\* Option::None of an id, a key or a peer id
None == 0

\* PublicKey::peer_id(): a digest of the key, not the key
peer_id(key) == 10 + key

PeerIds == {peer_id(k) : k \in Keys}

\* a Multiaddr: its transport part and its optional /p2p/<peer-id> component
Addrs == [base : Bases, peer : {None} \cup PeerIds]

NoAddr == [base |-> 0, peer |-> None]

\* the addresses given to Listen, given to Dial, and reported by an accept
ListenAddrs == {a \in Addrs : a.peer = None}
DialAddrs == {a \in Addrs : a.peer \in {None, 11}}
RemoteAddrs == {a \in Addrs : a.peer = None}

\* utils::extract_peer_id
extract_peer_id(address) == address.peer

\* Multiaddr::push(Protocol::P2p(..))
push_p2p(address, pid) == [address EXCEPT !.peer = pid]

Outbound == "Outbound"
Inbound == "Inbound"

is_outbound(ty) == ty = Outbound

\* yamux_config.send_event_size() and the 512 iterations of user_task_poll
SendEventSize == 1
UserTaskLimit == 3

High == "High"
Normal == "Normal"

is_high(priority) == priority = High

External == "External"
Internal == "Internal"

\* TargetProtocol
TargetAll == [k |-> "All", ps |-> {}]
TargetSingle(p) == [k |-> "Single", ps |-> {p}]
TargetMulti(ps) == [k |-> "Multi", ps |-> ps]

(***************************************************************************)
(* Helpers on sets, sequences and maps                                     *)
(***************************************************************************)
Min(S) == CHOOSE x \in S : \A y \in S : x <= y

\* the members of a set of numbers in ascending order (the order in which
\* the model walks a HashMap / HashSet)
RECURSIVE SetToSeq(_)
SetToSeq(S) == IF S = {} THEN << >> ELSE << Min(S) >> \o SetToSeq(S \ {Min(S)})

\* the pairs of a set of <<session, protocol>> keys, ordered by session and protocol
PairLess(a, b) == a[1] < b[1] \/ (a[1] = b[1] /\ a[2] <= b[2])
MinPair(S) == CHOOSE x \in S : \A y \in S : PairLess(x, y)
RECURSIVE PairsToSeq(_)
PairsToSeq(S) == IF S = {} THEN << >> ELSE << MinPair(S) >> \o PairsToSeq(S \ {MinPair(S)})

MapInsert(f, k, v) == (k :> v) @@ f
MapRemove(f, k) == [x \in DOMAIN f \ {k} |-> f[x]]
EmptyMap == << >>

(***************************************************************************)
(* Events and callbacks                                                    *)
(***************************************************************************)
\* a SessionEvent the core sends to a session task
SessionClose(id) == [t |-> "SessionClose", id |-> id, proto_id |-> None, priority |-> Normal, sender |-> None]
ProtocolMessage(id, proto_id, priority) == [t |-> "ProtocolMessage", id |-> id, proto_id |-> proto_id, priority |-> priority, sender |-> None]
\* sender: the session the handle sender carried by the event was registered for
ProtocolOpen(id, proto_id, sender) == [t |-> "ProtocolOpen", id |-> id, proto_id |-> proto_id, priority |-> Normal, sender |-> sender]
ProtocolClose(id, proto_id) == [t |-> "ProtocolClose", id |-> id, proto_id |-> proto_id, priority |-> Normal, sender |-> None]

\* a ServiceProtocolEvent / SessionProtocolEvent sent to a protocol handle
Update(listen_addrs) == [t |-> "Update", listen_addrs |-> listen_addrs]
SetNotify == [t |-> "SetNotify", listen_addrs |-> << >>]
RemoveNotify == [t |-> "RemoveNotify", listen_addrs |-> << >>]

\* a call of ServiceHandle::handle_event / handle_error / handle_proto
CB(t, id, proto_id, address, error, aux) == [t |-> t, id |-> id, proto_id |-> proto_id, address |-> address, error |-> error, aux |-> aux]

\* a background future: listen, dial, handshake, or one that sends no event back
Fut(k, address, ty) == [k |-> k, address |-> address, ty |-> ty]

(***************************************************************************)
(* service::config::State                                                  *)
(***************************************************************************)
State_new(forever) == IF forever THEN [k |-> "Forever", n |-> 0] ELSE [k |-> "Running", n |-> 0]

is_shutdown(state) == state.k = "PreShutdown" \/ (state.k = "Running" /\ state.n = 0)

pre_shutdown(state) == [k |-> "PreShutdown", n |-> 0]

increase(state) == IF state.k = "Running" THEN [state EXCEPT !.n = @ + 1] ELSE state

decrease(state) == IF state.k = "Running" THEN [state EXCEPT !.n = @ - 1] ELSE state

(***************************************************************************)
(* Small steps shared by the handlers.  st is the record of the service's  *)
(* fields (see Cur below).                                                 *)
(***************************************************************************)
\* a call of the user's ServiceHandle
emit(st, cb) == [st EXCEPT !.out = Append(@, cb)]

\* a fresh bounded channel to a protocol handle stream
NewChannel == [q |-> << >>, open |-> TRUE]

\* a task spawned on the runtime that will send a session event back
spawn(st, fut) == [st EXCEPT !.futures = @ (+) SetToBag({fut})]

set_delay(st) == [st EXCEPT !.delay = TRUE]

push_front(st, priority, event) ==
    IF is_high(priority)
    THEN [st EXCEPT !.high_write_buf = << event >> \o @]
    ELSE [st EXCEPT !.write_buf = << event >> \o @]

push_back(st, priority, event) ==
    IF is_high(priority)
    THEN [st EXCEPT !.high_write_buf = Append(@, event)]
    ELSE [st EXCEPT !.write_buf = Append(@, event)]

\* SessionController::try_send: sent, full (queue at capacity) or closed
\* (the session task has dropped its receivers)
try_send(st, id, priority, event) ==
    LET sess == st.sessions[id]
        q == IF is_high(priority) THEN sess.quick ELSE sess.normal
    IN  IF ~sess.rx THEN [res |-> "closed", st |-> st]
        ELSE IF Len(q) >= QueueCap THEN [res |-> "full", st |-> st]
        ELSE [res |-> "ok",
              st |-> IF is_high(priority)
                     THEN [st EXCEPT !.sessions[id].quick = Append(@, event)]
                     ELSE [st EXCEPT !.sessions[id].normal = Append(@, event)]]

\* mpsc::Sender::try_send on a protocol handle's channel
chan_try_send(chan, event) ==
    IF ~chan.open THEN [res |-> "closed", chan |-> chan]
    ELSE IF Len(chan.q) >= HandleCap THEN [res |-> "full", chan |-> chan]
    ELSE [res |-> "ok", chan |-> [chan EXCEPT !.q = Append(@, event)]]

distribute_one_unchecked(acc, event, priority) ==
    LET st == acc.st
        id == event.id
    IN  IF id \in acc.block
        THEN [acc EXCEPT !.st = push_back(st, priority, event)]
        ELSE IF id \in DOMAIN st.sessions
        THEN LET r == try_send(st, id, priority, event)
             IN  IF r.res = "ok" THEN [acc EXCEPT !.st = r.st]
                 ELSE IF r.res = "full"
                 THEN [st |-> set_delay(push_back(st, priority, event)),
                       block |-> acc.block \cup {id}]
                 ELSE acc
        ELSE acc

\* one event of a drained write buffer; acc = [st, block]
\* distribute_one giving up an event that found the queue full
distribute_one_lossy(acc, event, priority) ==
    LET st == acc.st
        id == event.id
    IN  IF id \in acc.block
        THEN [acc EXCEPT !.st = push_back(st, priority, event)]
        ELSE IF id \in DOMAIN st.sessions
        THEN IF st.sessions[id].closed /\ event.t = "ProtocolMessage"
             THEN acc
             ELSE LET r == try_send(st, id, priority, event)
                  IN  IF r.res = "ok" THEN [acc EXCEPT !.st = r.st]
                      ELSE IF r.res = "full"
                      THEN [st |-> set_delay(st), block |-> acc.block \cup {id}]
                      ELSE acc
        ELSE acc

distribute_one(acc, event, priority) ==
    LET st == acc.st
        id == event.id
    IN  IF id \in acc.block
        THEN [acc EXCEPT !.st = push_back(st, priority, event)]
        ELSE IF id \in DOMAIN st.sessions
        THEN IF st.sessions[id].closed /\ event.t = "ProtocolMessage"
             THEN acc
             ELSE LET r == try_send(st, id, priority, event)
                  IN  IF r.res = "ok" THEN [acc EXCEPT !.st = r.st]
                      ELSE IF r.res = "full"
                      THEN [st |-> set_delay(push_back(st, priority, event)),
                            block |-> acc.block \cup {id}]
                      ELSE acc
        ELSE acc

RECURSIVE distribute_to_session_process(_, _, _)
distribute_to_session_process(acc, data, priority) ==
    IF data = << >> THEN acc
    ELSE distribute_to_session_process(distribute_one(acc, Head(data), priority), Tail(data), priority)

RECURSIVE session_blocked(_, _)
session_blocked(st, ids) ==
    IF ids = << >> THEN st
    ELSE LET id == Head(ids)
         IN  session_blocked(
                 IF id \in DOMAIN st.sessions
                 THEN emit(st, CB("SessionBlocked", id, None, NoAddr, "", None))
                 ELSE st,
                 Tail(ids))

distribute_to_session_unreported(st) ==
    IF st.shutdown THEN st
    ELSE LET a1 == distribute_to_session_process(
                       [st |-> [st EXCEPT !.high_write_buf = << >>], block |-> {}],
                       st.high_write_buf, High)
             a2 == IF Cardinality(DOMAIN a1.st.sessions) > Cardinality(a1.block)
                   THEN distribute_to_session_process(
                            [a1 EXCEPT !.st.write_buf = << >>], a1.st.write_buf, Normal)
                   ELSE a1
         IN  a2.st

distribute_to_session_phases(st) ==
    IF st.shutdown THEN st
    ELSE LET a1 == distribute_to_session_process(
                       [st |-> [st EXCEPT !.high_write_buf = << >>], block |-> {}],
                       st.high_write_buf, High)
             a2 == IF Cardinality(DOMAIN a1.st.sessions) > Cardinality(a1.block)
                   THEN distribute_to_session_process(
                            [st |-> [a1.st EXCEPT !.write_buf = << >>], block |-> {}],
                            a1.st.write_buf, Normal)
                   ELSE a1
         IN  session_blocked(a2.st, SetToSeq(a1.block \cup a2.block))

\* the normal-priority pass of distribute_to_session; a1 = [st, block] after
\* the high-priority pass
distribute_normal(a1) ==
    IF Cardinality(DOMAIN a1.st.sessions) > Cardinality(a1.block)
    THEN distribute_to_session_process(
             [a1 EXCEPT !.st.write_buf = << >>], a1.st.write_buf, Normal)
    ELSE a1

\* the SessionBlocked reports at the end of distribute_to_session
report_blocked(a2) == session_blocked(a2.st, SetToSeq(a2.block))

distribute_to_session(st) ==
    IF st.shutdown THEN st
    ELSE report_blocked(
             distribute_normal(
                 distribute_to_session_process(
                     [st |-> [st EXCEPT !.high_write_buf = << >>], block |-> {}],
                     st.high_write_buf, High)))

(***************************************************************************)
(* Lifecycle: protocol_close, session_close, Shutdown                      *)
(***************************************************************************)
protocol_close_keep(st, session_id, proto_id, source) ==
    IF source = External
    THEN distribute_to_session(
             [st EXCEPT !.write_buf = Append(@, ProtocolClose(session_id, proto_id))])
    ELSE LET s1 == IF proto_id \in st.config.event /\ session_id \in DOMAIN st.sessions
                   THEN emit(st, CB("Disconnected", session_id, proto_id, NoAddr, "", None))
                   ELSE st
         IN  IF session_id \in DOMAIN s1.session_service_protos
             THEN [s1 EXCEPT !.session_service_protos[session_id] = @ \ {proto_id}]
             ELSE s1

protocol_close(st, session_id, proto_id, source) ==
    IF source = External
    THEN distribute_to_session(
             [st EXCEPT !.write_buf = Append(@, ProtocolClose(session_id, proto_id))])
    ELSE LET s1 == IF proto_id \in st.config.event /\ session_id \in DOMAIN st.sessions
                   THEN emit(st, CB("Disconnected", session_id, proto_id, NoAddr, "", None))
                   ELSE st
             s2 == IF session_id \in DOMAIN s1.session_service_protos
                   THEN [s1 EXCEPT !.session_service_protos[session_id] = @ \ {proto_id}]
                   ELSE s1
         IN  [s2 EXCEPT !.session_proto_handles = MapRemove(@, << session_id, proto_id >>)]

RECURSIVE close_protos(_, _, _)
close_protos(st, id, proto_ids) ==
    IF proto_ids = << >> THEN st
    ELSE close_protos(protocol_close(st, id, Head(proto_ids), Internal), id, Tail(proto_ids))

session_close_renotified(st, id, source) ==
    IF source = External
    THEN distribute_to_session([st EXCEPT !.write_buf = Append(@, SessionClose(id))])
    ELSE LET close_proto_ids == IF id \in DOMAIN st.session_service_protos
                                THEN st.session_service_protos[id] ELSE {}
             OtherId(e) == e.id # id
             OtherSid(e) == e.sid # id
             s1 == [st EXCEPT !.session_service_protos = MapRemove(@, id),
                              !.write_buf = SelectSeq(@, OtherId),
                              !.high_write_buf = SelectSeq(@, OtherId)]
             s2 == set_delay(s1)
             s3 == IF ~s2.config.keep_buffer
                   THEN [s2 EXCEPT !.read_session_buf = SelectSeq(@, OtherSid),
                                   !.read_service_buf = SelectSeq(@, OtherSid)]
                   ELSE s2
             s4 == close_protos(s3, id, SetToSeq(close_proto_ids))
         IN  emit([s4 EXCEPT !.sessions = MapRemove(@, id)],
                  CB("SessionClose", id, None, NoAddr, "", None))

\* session_close leaving the high-priority buffer as it is
session_close_unpurged(st, id, source) ==
    IF source = External
    THEN distribute_to_session([st EXCEPT !.write_buf = Append(@, SessionClose(id))])
    ELSE LET close_proto_ids == IF id \in DOMAIN st.session_service_protos
                                THEN st.session_service_protos[id] ELSE {}
             OtherId(e) == e.id # id
             OtherSid(e) == e.sid # id
             s1 == [st EXCEPT !.session_service_protos = MapRemove(@, id),
                              !.write_buf = SelectSeq(@, OtherId)]
             s2 == set_delay(s1)
             s3 == IF ~s2.config.keep_buffer
                   THEN [s2 EXCEPT !.read_session_buf = SelectSeq(@, OtherSid),
                                   !.read_service_buf = SelectSeq(@, OtherSid)]
                   ELSE s2
             s4 == close_protos(s3, id, SetToSeq(close_proto_ids))
         IN  IF id \in DOMAIN s4.sessions
             THEN emit([s4 EXCEPT !.sessions = MapRemove(@, id)],
                       CB("SessionClose", id, None, NoAddr, "", None))
             ELSE s4

\* session_close that removes the session without closing its protocols
session_close_protos_left(st, id, source) ==
    IF source = External
    THEN distribute_to_session([st EXCEPT !.write_buf = Append(@, SessionClose(id))])
    ELSE LET close_proto_ids == IF id \in DOMAIN st.session_service_protos
                                THEN st.session_service_protos[id] ELSE {}
             OtherId(e) == e.id # id
             OtherSid(e) == e.sid # id
             s1 == [st EXCEPT !.session_service_protos = MapRemove(@, id),
                              !.write_buf = SelectSeq(@, OtherId),
                              !.high_write_buf = SelectSeq(@, OtherId)]
             s2 == set_delay(s1)
             s3 == IF ~s2.config.keep_buffer
                   THEN [s2 EXCEPT !.read_session_buf = SelectSeq(@, OtherSid),
                                   !.read_service_buf = SelectSeq(@, OtherSid)]
                   ELSE s2
             s4 == s3
         IN  IF id \in DOMAIN s4.sessions
             THEN emit([s4 EXCEPT !.sessions = MapRemove(@, id)],
                       CB("SessionClose", id, None, NoAddr, "", None))
             ELSE s4

session_close(st, id, source) ==
    IF source = External
    THEN distribute_to_session([st EXCEPT !.write_buf = Append(@, SessionClose(id))])
    ELSE LET close_proto_ids == IF id \in DOMAIN st.session_service_protos
                                THEN st.session_service_protos[id] ELSE {}
             OtherId(e) == e.id # id
             OtherSid(e) == e.sid # id
             s1 == [st EXCEPT !.session_service_protos = MapRemove(@, id),
                              !.write_buf = SelectSeq(@, OtherId),
                              !.high_write_buf = SelectSeq(@, OtherId)]
             s2 == set_delay(s1)
             s3 == IF ~s2.config.keep_buffer
                   THEN [s2 EXCEPT !.read_session_buf = SelectSeq(@, OtherSid),
                                   !.read_service_buf = SelectSeq(@, OtherSid)]
                   ELSE s2
             s4 == close_protos(s3, id, SetToSeq(close_proto_ids))
         IN  IF id \in DOMAIN s4.sessions
             THEN emit([s4 EXCEPT !.sessions = MapRemove(@, id)],
                       CB("SessionClose", id, None, NoAddr, "", None))
             ELSE s4

RECURSIVE close_sessions(_, _, _)
close_sessions(st, ids, source) ==
    IF ids = << >> THEN st
    ELSE close_sessions(session_close(st, Head(ids), source), Tail(ids), source)

RECURSIVE listen_close_all(_, _)
listen_close_all(st, addrs) ==
    IF addrs = << >> THEN st
    ELSE listen_close_all(
             emit(st, CB("ListenClose", None, None, addrs[Len(addrs)], "", None)),
             SubSeq(addrs, 1, Len(addrs) - 1))

\* Shutdown(true) closing the sessions as Shutdown(false) does: by request
task_shutdown_asked(st, quick) ==
    LET s1 == [st EXCEPT !.state = pre_shutdown(@)]
        s2 == [listen_close_all(s1, s1.listens) EXCEPT !.listens = << >>, !.pending_tasks = << >>]
        ids == SetToSeq(DOMAIN s2.sessions)
    IN  IF quick
        THEN close_sessions(
                 [s2 EXCEPT !.receivers_closed = TRUE,
                            !.write_buf = << >>,
                            !.read_session_buf = << >>,
                            !.read_service_buf = << >>,
                            !.service_proto_handles = EmptyMap,
                            !.session_proto_handles = EmptyMap],
                 ids, External)
        ELSE close_sessions(s2, ids, External)

\* handle_service_task(ServiceTask::Shutdown(quick))
task_shutdown(st, quick) ==
    LET s1 == [st EXCEPT !.state = pre_shutdown(@)]
        s2 == [listen_close_all(s1, s1.listens) EXCEPT !.listens = << >>, !.pending_tasks = << >>]
        ids == SetToSeq(DOMAIN s2.sessions)
    IN  IF quick
        THEN close_sessions(
                 [s2 EXCEPT !.receivers_closed = TRUE,
                            !.write_buf = << >>,
                            !.read_session_buf = << >>,
                            !.read_service_buf = << >>,
                            !.service_proto_handles = EmptyMap,
                            !.session_proto_handles = EmptyMap],
                 ids, Internal)
        ELSE close_sessions(s2, ids, External)

(***************************************************************************)
(* Dispatch to the protocol handles                                        *)
(***************************************************************************)
\* When proto handle channel is full, call here
proto_handle_error(st, proto_id, session_id) ==
    emit(set_delay(st),
         CB("ProtocolHandleError", session_id, proto_id, NoAddr,
            IF session_id # None THEN "SessionProtoHandleBlock" ELSE "ServiceProtoHandleBlock",
            None))

\* one entry of the drained read_service_buf; acc = [st, block, error]
\* service_one holding back every protocol once one handle is full
service_one_all_blocked(acc, e) ==
    LET st == acc.st
    IN  IF acc.block # {}
        THEN [acc EXCEPT !.st.read_service_buf = Append(@, e)]
        ELSE IF e.proto_id \in DOMAIN st.service_proto_handles
        THEN LET r == chan_try_send(st.service_proto_handles[e.proto_id], e.ev)
             IN  IF r.res = "ok"
                 THEN [acc EXCEPT !.st.service_proto_handles[e.proto_id] = r.chan]
                 ELSE IF r.res = "full"
                 THEN [acc EXCEPT !.st = proto_handle_error(
                                             [st EXCEPT !.read_service_buf = Append(@, e)],
                                             e.proto_id, None),
                                  !.block = @ \cup {e.proto_id}]
                 ELSE [acc EXCEPT !.error = TRUE,
                                  !.st = emit(st, CB("ProtocolHandleError", None, e.proto_id, NoAddr,
                                                     "ServiceProtoHandleAbnormallyClosed", None))]
        ELSE acc

service_one(acc, e) ==
    LET st == acc.st
    IN  IF e.proto_id \in acc.block
        THEN [acc EXCEPT !.st.read_service_buf = Append(@, e)]
        ELSE IF e.proto_id \in DOMAIN st.service_proto_handles
        THEN LET r == chan_try_send(st.service_proto_handles[e.proto_id], e.ev)
             IN  IF r.res = "ok"
                 THEN [acc EXCEPT !.st.service_proto_handles[e.proto_id] = r.chan]
                 ELSE IF r.res = "full"
                 THEN [acc EXCEPT !.st = proto_handle_error(
                                             [st EXCEPT !.read_service_buf = Append(@, e)],
                                             e.proto_id, None),
                                  !.block = @ \cup {e.proto_id}]
                 ELSE [acc EXCEPT !.error = TRUE,
                                  !.st = emit(st, CB("ProtocolHandleError", None, e.proto_id, NoAddr,
                                                     "ServiceProtoHandleAbnormallyClosed", None))]
        ELSE acc

\* one entry of the drained read_session_buf
session_one(acc, e) ==
    LET st == acc.st
        key == << e.sid, e.proto_id >>
    IN  IF key \in DOMAIN st.session_proto_handles
        THEN LET r == chan_try_send(st.session_proto_handles[key], e.ev)
             IN  IF r.res = "ok"
                 THEN [acc EXCEPT !.st.session_proto_handles[key] = r.chan]
                 ELSE IF r.res = "full"
                 THEN [acc EXCEPT !.st = proto_handle_error(
                                             [st EXCEPT !.read_session_buf = Append(@, e)],
                                             e.proto_id, e.sid)]
                 ELSE [acc EXCEPT !.error = TRUE,
                                  !.st = emit(st, CB("ProtocolHandleError", e.sid, e.proto_id, NoAddr,
                                                     "SessionProtoHandleAbnormallyClosed", None))]
        ELSE acc

RECURSIVE service_loop(_, _)
service_loop(acc, data) ==
    IF data = << >> THEN acc ELSE service_loop(service_one(acc, Head(data)), Tail(data))

RECURSIVE session_loop(_, _)
session_loop(acc, data) ==
    IF data = << >> THEN acc ELSE session_loop(session_one(acc, Head(data)), Tail(data))

distribute_to_user_level_tolerant(st) ==
    IF st.shutdown THEN st
    ELSE LET closed_sessions == {id \in DOMAIN st.sessions : st.sessions[id].closed}
             s1 == close_sessions(st, SetToSeq(closed_sessions), Internal)
             a2 == service_loop([st |-> [s1 EXCEPT !.read_service_buf = << >>],
                                 block |-> {}, error |-> FALSE],
                                s1.read_service_buf)
             a3 == session_loop([a2 EXCEPT !.st.read_session_buf = << >>],
                                a2.st.read_session_buf)
         IN  a3.st

\* distribute_to_user_level not looking at the shutdown flag
distribute_to_user_level_unflagged(st) ==
    LET closed_sessions == {id \in DOMAIN st.sessions : st.sessions[id].closed}
        s1 == close_sessions(st, SetToSeq(closed_sessions), Internal)
        a2 == service_loop([st |-> [s1 EXCEPT !.read_service_buf = << >>],
                            block |-> {}, error |-> FALSE],
                           s1.read_service_buf)
        a3 == session_loop([a2 EXCEPT !.st.read_session_buf = << >>],
                           a2.st.read_session_buf)
    IN  IF a3.error THEN task_shutdown(a3.st, FALSE) ELSE a3.st

distribute_to_user_level(st) ==
    IF st.shutdown THEN st
    ELSE LET closed_sessions == {id \in DOMAIN st.sessions : st.sessions[id].closed}
             s1 == close_sessions(st, SetToSeq(closed_sessions), Internal)
             a2 == service_loop([st |-> [s1 EXCEPT !.read_service_buf = << >>],
                                 block |-> {}, error |-> FALSE],
                                s1.read_service_buf)
             a3 == session_loop([a2 EXCEPT !.st.read_session_buf = << >>],
                                a2.st.read_session_buf)
         IN  IF a3.error THEN task_shutdown(a3.st, FALSE) ELSE a3.st

\* The handle streams run as tasks of their own and take events from their
\* channels while the core is inside distribute_to_user_level.  race = n > 0:
\* the handle stream of the n-th drained entry takes the head of its channel
\* just before that entry is tried; race = 0: no handle stream runs meanwhile.
RECURSIVE session_loop_racing(_, _, _)
session_loop_racing(acc, data, race) ==
    IF data = << >> THEN acc
    ELSE LET e == Head(data)
             key == << e.sid, e.proto_id >>
             taken == IF /\ race = 1
                         /\ key \in DOMAIN acc.st.session_proto_handles
                         /\ acc.st.session_proto_handles[key].q # << >>
                      THEN [acc EXCEPT !.st.session_proto_handles[key].q = Tail(@)]
                      ELSE acc
         IN  session_loop_racing(session_one(taken, e), Tail(data),
                                 IF race = 0 THEN 0 ELSE race - 1)

distribute_to_user_level_racing(st, race) ==
    IF st.shutdown THEN st
    ELSE LET closed_sessions == {id \in DOMAIN st.sessions : st.sessions[id].closed}
             s1 == close_sessions(st, SetToSeq(closed_sessions), Internal)
             a2 == service_loop([st |-> [s1 EXCEPT !.read_service_buf = << >>],
                                 block |-> {}, error |-> FALSE],
                                s1.read_service_buf)
             a3 == session_loop_racing([a2 EXCEPT !.st.read_session_buf = << >>],
                                       a2.st.read_session_buf, race)
         IN  IF a3.error THEN task_shutdown(a3.st, FALSE) ELSE a3.st

(***************************************************************************)
(* Lifecycle: handles, session_open, protocol_open, protocol_message       *)
(***************************************************************************)
\* whether proto_handle(session, proto_id) yields a handle
proto_handle(st, session, proto_id) ==
    IF session THEN proto_id \in st.config.session_handles
    ELSE proto_id \in st.config.service_handles

\* handle_open(InnerProtocolHandle::Service(..), proto_id, None)
handle_open_service(st, proto_id) ==
    [st EXCEPT !.service_proto_handles = MapInsert(@, proto_id, NewChannel)]

\* handle_open(InnerProtocolHandle::Session(..), proto_id, Some(id))
handle_open_session(st, proto_id, id) ==
    IF id \in DOMAIN st.sessions
    THEN [st EXCEPT !.session_proto_handles = MapInsert(@, << id, proto_id >>, NewChannel)]
    ELSE st

RECURSIVE open_session_handles(_, _)
open_session_handles(st, proto_ids) ==
    IF proto_ids = << >> THEN st
    ELSE open_session_handles(
             IF proto_handle(st, TRUE, Head(proto_ids))
             THEN handle_open_session(st, Head(proto_ids), st.next_session)
             ELSE st,
             Tail(proto_ids))

\* the tail of session_open, once the id has been allocated
session_install(st, remote_pubkey, address, ty) ==
    LET id == st.next_session
        control == [remote_pubkey |-> remote_pubkey, address |-> address, ty |-> ty,
                    closed |-> FALSE, quick |-> << >>, normal |-> << >>, rx |-> TRUE]
        s1 == [st EXCEPT !.sessions = MapInsert(@, id, control)]
        s2 == open_session_handles(s1, SetToSeq(Protos))
        s3 == [s2 EXCEPT !.session_tasks = MapInsert(@, id, [subs |-> {}, ended |-> FALSE])]
    IN  emit(s3, CB("SessionOpen", id, None, address, "", remote_pubkey))

allocate_same(st) == st

\* self.next_session += 1
allocate(st) == [st EXCEPT !.next_session = @ + 1]

find_none(st, key) == {}

\* self.sessions.values().find(|context| context.inner.remote_pubkey == Some(key))
find_session(st, key) == {id \in DOMAIN st.sessions : st.sessions[id].remote_pubkey = key}

peer_id_unchecked(key, address) == FALSE

\* the address carries a peer-id and key.peer_id() differs from it
peer_id_not_match(key, address) ==
    extract_peer_id(address) # None /\ peer_id(key) # extract_peer_id(address)

session_open(st, remote_pubkey, address, ty) ==
    LET s1 == IF is_outbound(ty) THEN [st EXCEPT !.state = decrease(@)] ELSE st
        s2 == [s1 EXCEPT !.dial_protocols = MapRemove(@, address)]
        same == find_session(s2, remote_pubkey)
    IN  IF remote_pubkey # None
        THEN IF same # {}
             THEN emit(s2, CB(IF is_outbound(ty) THEN "DialerError" ELSE "ListenError",
                              None, None, address, "RepeatedConnection", Min(same)))
             ELSE IF peer_id_not_match(remote_pubkey, address)
                  THEN emit(s2, CB("DialerError", None, None, address, "PeerIdNotMatch", None))
                  ELSE session_install(allocate(s2), remote_pubkey,
                                       IF extract_peer_id(address) # None THEN address
                                       ELSE push_p2p(address, peer_id(remote_pubkey)),
                                       ty)
        ELSE session_install(allocate(s2), remote_pubkey, address, ty)

protocol_open_unrecorded(st, id, proto_id, source) ==
    IF source = External
    THEN IF /\ id \in DOMAIN st.sessions
            /\ ~(id \in DOMAIN st.session_service_protos /\ proto_id \in st.session_service_protos[id])
            /\ << id, proto_id >> \notin DOMAIN st.session_proto_handles
         THEN LET s1 == IF proto_handle(st, TRUE, proto_id)
                        THEN handle_open_session(st, proto_id, st.next_session)
                        ELSE st
                  sender == IF << id, proto_id >> \in DOMAIN s1.session_proto_handles
                            THEN id ELSE None
              IN  distribute_to_session(
                      [s1 EXCEPT !.write_buf = Append(@, ProtocolOpen(id, proto_id, sender))])
         ELSE st
    ELSE IF proto_id \in st.config.event /\ id \in DOMAIN st.sessions
         THEN emit(st, CB("Connected", id, proto_id, NoAddr, "", None))
         ELSE st

protocol_open(st, id, proto_id, source) ==
    IF source = External
    THEN IF /\ id \in DOMAIN st.sessions
            /\ ~(id \in DOMAIN st.session_service_protos /\ proto_id \in st.session_service_protos[id])
            /\ << id, proto_id >> \notin DOMAIN st.session_proto_handles
         THEN LET s1 == IF proto_handle(st, TRUE, proto_id)
                        THEN handle_open_session(st, proto_id, st.next_session)
                        ELSE st
                  sender == IF << id, proto_id >> \in DOMAIN s1.session_proto_handles
                            THEN id ELSE None
              IN  distribute_to_session(
                      [s1 EXCEPT !.write_buf = Append(@, ProtocolOpen(id, proto_id, sender))])
         ELSE st
    ELSE LET s1 == [st EXCEPT !.session_service_protos =
                        MapInsert(@, id, (IF id \in DOMAIN @ THEN @[id] ELSE {}) \cup {proto_id})]
         IN  IF proto_id \in s1.config.event /\ id \in DOMAIN s1.sessions
             THEN emit(s1, CB("Connected", id, proto_id, NoAddr, "", None))
             ELSE s1

protocol_message(st, session_id, proto_id) ==
    IF proto_id \in st.config.event /\ session_id \in DOMAIN st.sessions
    THEN emit(st, CB("Received", session_id, proto_id, NoAddr, "", None))
    ELSE st

(***************************************************************************)
(* Pending tasks, listeners, handshake                                     *)
(***************************************************************************)
\* room: how many tasks the future-task channel accepts before try_send reports full
RECURSIVE send_pending_task(_, _)
send_pending_task(st, room) ==
    IF st.pending_tasks = << >> THEN st
    ELSE IF room = 0
    THEN set_delay(st)
    ELSE LET task == Head(st.pending_tasks)
             s1 == [st EXCEPT !.pending_tasks = Tail(@)]
         IN  send_pending_task(IF task.k \in {"listen", "dial"} THEN spawn(s1, task) ELSE s1,
                               room - 1)

send_future_task(st, task, room) ==
    send_pending_task([st EXCEPT !.pending_tasks = Append(@, task)], room)

notify_queue(st, room) == send_future_task(st, Fut("notify", NoAddr, ""), room)

RECURSIVE init_handles(_, _)
init_handles(st, ids) ==
    IF ids = << >> THEN st
    ELSE init_handles(
             IF proto_handle(st, FALSE, Head(ids)) THEN handle_open_service(st, Head(ids)) ELSE st,
             Tail(ids))

init_proto_handles(st) == init_handles(st, SetToSeq(Protos))

RECURSIVE push_service_updates(_, _, _)
push_service_updates(st, proto_ids, new_listens) ==
    IF proto_ids = << >> THEN st
    ELSE push_service_updates(
             [st EXCEPT !.read_service_buf =
                 Append(@, [sid |-> None, proto_id |-> Head(proto_ids), ev |-> Update(new_listens)])],
             Tail(proto_ids), new_listens)

RECURSIVE push_session_updates(_, _, _)
push_session_updates(st, keys, new_listens) ==
    IF keys = << >> THEN st
    ELSE push_session_updates(
             [st EXCEPT !.read_session_buf =
                 Append(@, [sid |-> Head(keys)[1], proto_id |-> Head(keys)[2], ev |-> Update(new_listens)])],
             Tail(keys), new_listens)

update_listens(st) ==
    IF Len(st.listens) = Len(st.ctx_listens) THEN st
    ELSE LET new_listens == st.listens
             s1 == [st EXCEPT !.ctx_listens = new_listens]
             s2 == push_service_updates(s1, SetToSeq(DOMAIN s1.service_proto_handles), new_listens)
             s3 == push_session_updates(s2, PairsToSeq(DOMAIN s2.session_proto_handles), new_listens)
         IN  distribute_to_user_level(s3)

\* the listen future is built and queued, or the transport refuses the address
listen(st, address, ok) ==
    IF ok
    THEN [st EXCEPT !.pending_tasks = Append(@, Fut("listen", address, "")),
                    !.state = increase(@)]
    ELSE st

dial_inner(st, address, target, ok) ==
    LET s1 == [st EXCEPT !.dial_protocols = MapInsert(@, address, target)]
    IN  IF ok
        THEN [s1 EXCEPT !.pending_tasks = Append(@, Fut("dial", address, "")),
                        !.state = increase(@)]
        ELSE s1

handshake(st, ty, remote_address) ==
    IF st.config.key_pair
    THEN spawn(st, Fut("handshake", remote_address, ty))
    ELSE session_open(st, None, remote_address, ty)

\* listen_one dropping a listener that has ended without telling the handle
listen_one_silent(acc, address, r) ==
    IF r.k = "accept"
    THEN [acc EXCEPT !.st = LET s1 == handshake(acc.st, Inbound, r.address)
                            IN  [s1 EXCEPT !.listens = Append(@, address)]]
    ELSE IF r.k = "end"
    THEN [st |-> acc.st, update |-> TRUE]
    ELSE IF r.k = "notready"
    THEN [acc EXCEPT !.st.listens = Append(@, address)]
    ELSE [st |-> emit(emit(acc.st, CB("ListenError", None, None, address, "IoError", None)),
                      CB("ListenClose", None, None, address, "", None)),
          update |-> TRUE]

\* one listener of listen_poll; acc = [st, update]; r = what its accept yields
listen_one(acc, address, r) ==
    IF r.k = "accept"
    THEN [acc EXCEPT !.st = LET s1 == handshake(acc.st, Inbound, r.address)
                            IN  [s1 EXCEPT !.listens = Append(@, address)]]
    ELSE IF r.k = "end"
    THEN [st |-> emit(acc.st, CB("ListenClose", None, None, address, "", None)), update |-> TRUE]
    ELSE IF r.k = "notready"
    THEN [acc EXCEPT !.st.listens = Append(@, address)]
    ELSE [st |-> emit(emit(acc.st, CB("ListenError", None, None, address, "IoError", None)),
                      CB("ListenClose", None, None, address, "", None)),
          update |-> TRUE]

RECURSIVE listen_loop(_, _, _)
listen_loop(acc, addrs, results) ==
    IF addrs = << >> THEN acc
    ELSE listen_loop(listen_one(acc, Head(addrs), Head(results)), Tail(addrs), Tail(results))

\* results[i]: what polling the i-th listener yields in this call
listen_poll(st, results) ==
    LET a == listen_loop([st |-> [st EXCEPT !.listens = << >>], update |-> FALSE],
                         st.listens, results)
    IN  IF a.update \/ a.st.ctx_listens = << >> THEN update_listens(a.st) ELSE a.st

(***************************************************************************)
(* handle_session_event, one operator per SessionEvent variant             *)
(***************************************************************************)
ev_session_close(st, id) == session_close(st, id, Internal)

ev_handshake_success(st, public_key, address, ty) == session_open(st, public_key, address, ty)

ev_handshake_fail(st, ty, address) ==
    IF is_outbound(ty)
    THEN emit([st EXCEPT !.state = decrease(@), !.dial_protocols = MapRemove(@, address)],
              CB("DialerError", None, None, address, "HandshakeError", None))
    ELSE st

ev_protocol_message(st, id, proto_id) == protocol_message(st, id, proto_id)

ev_protocol_open(st, id, proto_id) == protocol_open(st, id, proto_id, Internal)

ev_protocol_close(st, id, proto_id) == protocol_close(st, id, proto_id, Internal)

\* ProtocolSelectError, SessionTimeout, MuxerError: reported if the session is known
ev_session_error(st, kind, id) ==
    IF id \in DOMAIN st.sessions THEN emit(st, CB(kind, id, None, NoAddr, "", None)) ELSE st

ev_protocol_error(st, id, proto_id) == emit(st, CB("ProtocolError", id, proto_id, NoAddr, "", None))

ev_dial_error(st, address) ==
    emit([st EXCEPT !.state = decrease(@), !.dial_protocols = MapRemove(@, address)],
         CB("DialerError", None, None, address, "IoError", None))

ev_listen_error(st, address) ==
    emit([st EXCEPT !.state = decrease(@)],
         CB("ListenError", None, None, address, "DNSResolverError", None))

ev_listen_start(st, listen_address, results) ==
    LET s1 == emit(st, CB("ListenStarted", None, None, listen_address, "", None))
        s2 == [s1 EXCEPT !.listens = Append(@, listen_address), !.state = decrease(@)]
    IN  listen_poll(update_listens(s2), results)

ev_dial_start(st, remote_address) == handshake(st, Outbound, remote_address)

(***************************************************************************)
(* handle_service_task, one operator per ServiceTask variant               *)
(***************************************************************************)
\* send_message_to that does not ask whether the session exists
send_message_to_any(st, session_id, proto_id, priority) ==
    distribute_to_session(push_back(st, priority, ProtocolMessage(session_id, proto_id, priority)))

send_message_to(st, session_id, proto_id, priority) ==
    IF session_id \notin DOMAIN st.sessions THEN st
    ELSE distribute_to_session(push_back(st, priority, ProtocolMessage(session_id, proto_id, priority)))

RECURSIVE push_messages(_, _, _, _)
push_messages(st, ids, proto_id, priority) ==
    IF ids = << >> THEN st
    ELSE push_messages(push_back(st, priority, ProtocolMessage(Head(ids), proto_id, priority)),
                       Tail(ids), proto_id, priority)

\* Vec::contains
contains(ids, id) == \E i \in 1..Len(ids) : ids[i] = id

filter_broadcast_each_id(st, ids, proto_id, priority) ==
    LET Live(id) == id \in DOMAIN st.sessions
    IN  distribute_to_session(push_messages(st, SelectSeq(ids, Live), proto_id, priority))

\* ids is the Vec the task carries; the loop runs over the keys of sessions
filter_broadcast(st, ids, proto_id, priority) ==
    distribute_to_session(
        push_messages(st, SetToSeq({id \in DOMAIN st.sessions : contains(ids, id)}),
                      proto_id, priority))

broadcast(st, proto_id, priority) ==
    distribute_to_session(push_messages(st, SetToSeq(DOMAIN st.sessions), proto_id, priority))

\* TargetSession
SessionAll == [k |-> "All", ids |-> << >>]
SessionSingle(id) == [k |-> "Single", ids |-> << id >>]
SessionMulti(ids) == [k |-> "Multi", ids |-> ids]

task_protocol_message(st, target, proto_id, priority) ==
    IF target.k = "Single"
    THEN send_message_to(st, target.ids[1], proto_id, priority)
    ELSE IF target.k = "Multi"
    THEN filter_broadcast(st, target.ids, proto_id, priority)
    ELSE broadcast(st, proto_id, priority)

task_dial(st, address, target, ok) ==
    IF address \notin DOMAIN st.dial_protocols
    THEN LET s1 == dial_inner(st, address, target, ok)
         IN  IF ok THEN s1
             ELSE emit(s1, CB("DialerError", None, None, address, "TransportError", None))
    ELSE st

task_listen(st, address, ok) ==
    IF ~(\E i \in 1..Len(st.listens) : st.listens[i] = address)
    THEN LET s1 == listen(st, address, ok)
         IN  IF ok THEN s1
             ELSE emit(s1, CB("ListenError", None, None, address, "TransportError", None))
    ELSE st

task_disconnect(st, session_id) == session_close(st, session_id, External)

task_future_task(st, room) == send_future_task(st, Fut("user", NoAddr, ""), room)

\* SetProtocolNotify / RemoveProtocolNotify
task_protocol_notify(st, proto_id, event) ==
    IF proto_id \in DOMAIN st.service_proto_handles
    THEN distribute_to_user_level(
             [st EXCEPT !.read_service_buf =
                 Append(@, [sid |-> None, proto_id |-> proto_id, ev |-> event])])
    ELSE st

task_set_session_notify(st, session_id, proto_id) ==
    IF << session_id, proto_id >> \in DOMAIN st.session_proto_handles
    THEN distribute_to_user_level(
             [st EXCEPT !.read_session_buf =
                 Append(@, [sid |-> session_id, proto_id |-> proto_id, ev |-> SetNotify])])
    ELSE st

\* SetProtocolSessionNotify handled while a handle stream takes an event
task_set_session_notify_racing(st, session_id, proto_id, race) ==
    IF << session_id, proto_id >> \in DOMAIN st.session_proto_handles
    THEN distribute_to_user_level_racing(
             [st EXCEPT !.read_session_buf =
                 Append(@, [sid |-> session_id, proto_id |-> proto_id, ev |-> SetNotify])],
             race)
    ELSE st

task_remove_session_notify(st, session_id, proto_id) ==
    IF << session_id, proto_id >> \in DOMAIN st.session_proto_handles
    THEN [st EXCEPT !.read_session_buf =
             Append(@, [sid |-> session_id, proto_id |-> proto_id, ev |-> RemoveNotify])]
    ELSE st

RECURSIVE open_protos(_, _, _)
open_protos(st, session_id, proto_ids) ==
    IF proto_ids = << >> THEN st
    ELSE open_protos(protocol_open(st, session_id, Head(proto_ids), External),
                     session_id, Tail(proto_ids))

task_protocol_open(st, session_id, target) ==
    IF target.k = "All"
    THEN open_protos(st, session_id, SetToSeq(Protos))
    ELSE open_protos(st, session_id, SetToSeq(target.ps))

task_protocol_close(st, session_id, proto_id) == protocol_close(st, session_id, proto_id, External)

\* ServiceTask, as the control channels carry it: a message for one session
\* or a Disconnect
TaskMessage(id, priority) == [k |-> "ProtocolMessage", id |-> id, priority |-> priority]
TaskDisconnectOf(id) == [k |-> "Disconnect", id |-> id, priority |-> Normal]

handle_service_task(st, task) ==
    IF task.k = "ProtocolMessage"
    THEN send_message_to(st, task.id, 1, task.priority)
    ELSE session_close(st, task.id, External)

\* what one iteration of user_task_poll saw before it took its task
Seen(st, quick, from) ==
    [from |-> from, quick |-> Len(quick), write |-> Len(st.write_buf),
     high |-> Len(st.high_write_buf)]

\* the loop of user_task_poll: `left` iterations remain, `quick` and `normal`
\* are what the two control channels hold
RECURSIVE user_task_loop(_, _, _, _, _)
user_task_loop(st, quick, normal, left, log) ==
    LET from == IF quick # << >> THEN "quick"
                ELSE IF Len(st.write_buf) <= SendEventSize /\ normal # << >> THEN "normal"
                ELSE "none"
        task == IF from = "quick" THEN Head(quick) ELSE Head(normal)
        stop(finished) == [st |-> st, quick |-> quick, normal |-> normal, log |-> log,
                           finished |-> finished]
    IN  IF left = 0 THEN stop(FALSE)
        ELSE IF Len(st.write_buf) > SendEventSize /\ Len(st.high_write_buf) > SendEventSize
        THEN stop(FALSE)
        ELSE IF from = "none" THEN stop(TRUE)
        ELSE user_task_loop(handle_service_task(st, task),
                            IF from = "quick" THEN Tail(quick) ELSE quick,
                            IF from = "quick" THEN normal ELSE Tail(normal),
                            left - 1, Append(log, Seen(st, quick, from)))

user_task_poll(st, quick, normal) ==
    LET r == user_task_loop(st, quick, normal, UserTaskLimit, << >>)
    IN  IF r.finished THEN r ELSE [r EXCEPT !.st = set_delay(r.st)]

(***************************************************************************)
(* State                                                                   *)
(***************************************************************************)
VARIABLES
    \* fields of Service
    sessions,               \* SessionId -> SessionController (context, queues)
    next_session,
    state,
    listens,                \* addresses of the listeners, in Vec order
    dial_protocols,         \* Multiaddr -> TargetProtocol
    high_write_buf,
    write_buf,
    read_service_buf,
    read_session_buf,
    session_service_protos, \* SessionId -> set of ProtocolId
    service_proto_handles,  \* ProtocolId -> channel to the handle stream
    session_proto_handles,  \* <<SessionId, ProtocolId>> -> channel to the handle stream
    pending_tasks,
    delay,                  \* the delay flag: a timer task is pending
    shutdown,               \* the shared shutdown flag
    ctx_listens,            \* service_context.listens()
    receivers_closed,       \* the three task / event receivers were closed
    config,                 \* key_pair present, keep_buffer, forever
    started,                \* future_task_manager has been taken (first poll done)
    pc,                     \* where Stream::poll stands
    out,                    \* the ServiceHandle calls made by the last step
    \* the tasks beside the core
    futures,                \* bag of listen / dial / handshake futures running
    session_tasks,          \* SessionId -> what the session task has reported
    \* fields of FutureTaskManager and the tasks it spawned
    signals,                \* ids with a stored one-shot sender
    next_id,
    task_chan,              \* tasks waiting in task_receiver
    id_chan,                \* ids waiting in id_receiver
    wrappers,               \* FutureTaskId -> the spawned task_wrapper
    manager,                \* "alive", "ended" (poll gave None) or "dropped"
    senders_alive,          \* a sender of the task channel still exists
    submitted,              \* tasks sent to the manager so far
    \* the delay task spawned by set_delay and the task it notifies
    timer,                  \* "none", "armed" (spawned) or "fired" (notify done, flag not yet reset)
    woken,                  \* the task was notified since its last poll began
    asked                   \* set_delay was called and no notification has followed yet

core_vars == << sessions, next_session, state, listens, dial_protocols, high_write_buf,
                write_buf, read_service_buf, read_session_buf, session_service_protos,
                service_proto_handles, session_proto_handles, pending_tasks, delay,
                shutdown, ctx_listens, receivers_closed, config, started, pc, out,
                futures, session_tasks >>

timer_vars == << timer, woken, asked >>

manager_vars == << signals, next_id, task_chan, id_chan, wrappers, manager,
                   senders_alive, submitted, timer_vars >>

vars == << core_vars, manager_vars >>

\* the record the handlers work on
Cur == [sessions |-> sessions, next_session |-> next_session, state |-> state,
        listens |-> listens, dial_protocols |-> dial_protocols,
        high_write_buf |-> high_write_buf, write_buf |-> write_buf,
        read_service_buf |-> read_service_buf, read_session_buf |-> read_session_buf,
        session_service_protos |-> session_service_protos,
        service_proto_handles |-> service_proto_handles,
        session_proto_handles |-> session_proto_handles,
        pending_tasks |-> pending_tasks, delay |-> delay, shutdown |-> shutdown,
        ctx_listens |-> ctx_listens, receivers_closed |-> receivers_closed,
        config |-> config, out |-> << >>, futures |-> futures,
        session_tasks |-> session_tasks]

\* the model follows a run only while it stays inside its bounds
Bounded(new) ==
    /\ new.next_session <= MaxSession
    /\ Len(new.high_write_buf) <= MaxBuf
    /\ Len(new.write_buf) <= MaxBuf
    /\ Len(new.read_service_buf) <= MaxBuf
    /\ Len(new.read_session_buf) <= MaxBuf
    /\ Len(new.listens) <= MaxInflight
    /\ BagCardinality(new.futures) + Len(new.pending_tasks) <= MaxInflight

Commit(new) ==
    /\ Bounded(new)
    /\ sessions' = new.sessions
    /\ next_session' = new.next_session
    /\ state' = new.state
    /\ listens' = new.listens
    /\ dial_protocols' = new.dial_protocols
    /\ high_write_buf' = new.high_write_buf
    /\ write_buf' = new.write_buf
    /\ read_service_buf' = new.read_service_buf
    /\ read_session_buf' = new.read_session_buf
    /\ session_service_protos' = new.session_service_protos
    /\ service_proto_handles' = new.service_proto_handles
    /\ session_proto_handles' = new.session_proto_handles
    /\ pending_tasks' = new.pending_tasks
    /\ delay' = new.delay
    /\ shutdown' = new.shutdown
    /\ ctx_listens' = new.ctx_listens
    /\ receivers_closed' = new.receivers_closed
    /\ config' = new.config
    /\ out' = new.out
    /\ futures' = new.futures
    /\ session_tasks' = new.session_tasks

\* what Service::new is given: whether a key pair is configured, keep_buffer,
\* forever, the protocols whose service_handle() / session_handle() yield a
\* handle, and config.event
Configs == [key_pair : BOOLEAN, keep_buffer : BOOLEAN, forever : BOOLEAN,
            service_handles : SUBSET Protos, session_handles : SUBSET Protos,
            event : SUBSET Protos]

\* Service::new
InitCore(c) ==
    /\ config = c
    /\ sessions = EmptyMap
    /\ next_session = 0
    /\ state = State_new(config.forever)
    /\ listens = << >>
    /\ dial_protocols = EmptyMap
    /\ high_write_buf = << >>
    /\ write_buf = << >>
    /\ read_service_buf = << >>
    /\ read_session_buf = << >>
    /\ session_service_protos = EmptyMap
    /\ service_proto_handles = EmptyMap
    /\ session_proto_handles = EmptyMap
    /\ pending_tasks = << >>
    /\ delay = FALSE
    /\ shutdown = FALSE
    /\ ctx_listens = << >>
    /\ receivers_closed = FALSE
    /\ started = FALSE
    /\ pc = "idle"
    /\ out = << >>
    /\ futures = EmptyBag
    /\ session_tasks = EmptyMap

\* FutureTaskManager::new
InitManager ==
    /\ signals = {}
    /\ next_id = 0
    /\ task_chan = << >>
    /\ id_chan = << >>
    /\ wrappers = EmptyMap
    /\ manager = "alive"
    /\ senders_alive = TRUE
    /\ submitted = 0
    /\ timer = "none"
    /\ woken = FALSE
    /\ asked = FALSE

Init == \E c \in Configs : InitCore(c) /\ InitManager

(***************************************************************************)
(* Stream::poll for Service                                                *)
(***************************************************************************)
\* the room the future-task channel may have when the core sends to it: the
\* channel is shared with the sessions and handle streams, which fill it too
Rooms == 0..(MaxInflight + 1)

Drained_whatever_state(st) ==
    /\ st.listens = << >>
    /\ st.sessions = EmptyMap
    /\ st.pending_tasks = << >>

Drained(st) ==
    /\ st.listens = << >>
    /\ is_shutdown(st.state)
    /\ st.sessions = EmptyMap
    /\ st.pending_tasks = << >>

\* Service::listen / Service::dial called by the owner before the service is run
PreListen(address, ok) ==
    /\ pc = "idle" /\ ~started
    /\ Commit(listen(Cur, address, ok))
    /\ UNCHANGED << started, pc, manager_vars >>

PreDial(address, target, ok) ==
    /\ pc = "idle" /\ ~started
    /\ Commit(dial_inner(Cur, address, target, ok))
    /\ UNCHANGED << started, pc, manager_vars >>

\* the head check says Done
PollHeadDone ==
    /\ pc = "idle"
    /\ Drained(Cur)
    /\ Commit([Cur EXCEPT !.shutdown = TRUE])
    /\ pc' = "done"
    /\ UNCHANGED << started, manager_vars >>

\* the head of poll: first-turn initialisation and the flush of the buffers
poll_head(st, first, room) ==
    LET s1 == IF first THEN init_proto_handles(notify_queue(st, room)) ELSE st
        s2 == IF s1.write_buf # << >> \/ s1.high_write_buf # << >>
              THEN distribute_to_session(s1) ELSE s1
    IN  IF s2.read_service_buf # << >> \/ s2.read_session_buf # << >>
        THEN distribute_to_user_level(s2) ELSE s2

PollHead ==
    /\ pc = "idle"
    /\ ~Drained(Cur)
    /\ \E room \in Rooms : Commit(poll_head(Cur, ~started, room))
    /\ started' = TRUE
    /\ pc' = "listen"
    /\ UNCHANGED manager_vars

ListenResults ==
    {[k |-> x, address |-> NoAddr] : x \in {"notready", "end", "err"}}
        \cup {[k |-> "accept", address |-> a] : a \in RemoteAddrs}

ListenPoll ==
    /\ pc = "listen"
    /\ \E results \in [1..Len(listens) -> ListenResults] : Commit(listen_poll(Cur, results))
    /\ pc' = "session"
    /\ UNCHANGED << started, manager_vars >>

QuietResults == {[k |-> x, address |-> NoAddr] : x \in {"notready", "end", "err"}}

\* listen_poll when no connection comes in: a listener is not ready, has
\* ended or has failed
ListenPollNoAccept ==
    /\ pc = "listen"
    /\ \E results \in [1..Len(listens) -> QuietResults] :
           Commit(listen_poll(Cur, results))
    /\ pc' = "session"
    /\ UNCHANGED << started, manager_vars >>

\* session_poll finds the channel not ready (or has taken its 64 events)
SessionPollEnd ==
    /\ pc = "session"
    /\ Commit(Cur)
    /\ pc' = "user"
    /\ UNCHANGED << started, manager_vars >>

\* the tail of poll: send_pending_task and the second check
PollTail ==
    /\ pc = "user"
    /\ \E room \in Rooms :
           LET new == send_pending_task(Cur, room)
           IN  IF Drained(new)
               THEN Commit([new EXCEPT !.shutdown = TRUE]) /\ pc' = "done"
               ELSE Commit(new) /\ pc' = "idle"
    /\ UNCHANGED << started, manager_vars >>

(***************************************************************************)
(* session_poll: one event taken from session_event_receiver               *)
(***************************************************************************)
InSession == pc = "session"

KeepPoll == UNCHANGED << started, pc, manager_vars >>

HasFuture(fut) == BagIn(fut, futures)

Without(st, fut) == [st EXCEPT !.futures = @ (-) SetToBag({fut})]

\* the session task of id still reports events
Reports(id) == id \in DOMAIN session_tasks /\ ~session_tasks[id].ended

EvSessionClose(id) ==
    /\ InSession /\ Reports(id)
    /\ Commit(ev_session_close([Cur EXCEPT !.session_tasks[id].ended = TRUE], id))
    /\ KeepPoll

EvHandshakeSuccess(public_key, address, ty) ==
    /\ InSession /\ HasFuture(Fut("handshake", address, ty))
    /\ Commit(ev_handshake_success(Without(Cur, Fut("handshake", address, ty)), public_key, address, ty))
    /\ KeepPoll

EvHandshakeFail(address, ty) ==
    /\ InSession /\ HasFuture(Fut("handshake", address, ty))
    /\ Commit(ev_handshake_fail(Without(Cur, Fut("handshake", address, ty)), ty, address))
    /\ KeepPoll

EvProtocolOpen(id, proto_id) ==
    /\ InSession /\ Reports(id) /\ proto_id \notin session_tasks[id].subs
    /\ Commit(ev_protocol_open([Cur EXCEPT !.session_tasks[id].subs = @ \cup {proto_id}], id, proto_id))
    /\ KeepPoll

EvProtocolMessage(id, proto_id) ==
    /\ InSession /\ Reports(id) /\ proto_id \in session_tasks[id].subs
    /\ Commit(ev_protocol_message(Cur, id, proto_id))
    /\ KeepPoll

EvProtocolClose(id, proto_id) ==
    /\ InSession /\ Reports(id) /\ proto_id \in session_tasks[id].subs
    /\ Commit(ev_protocol_close([Cur EXCEPT !.session_tasks[id].subs = @ \ {proto_id}], id, proto_id))
    /\ KeepPoll

EvSessionError(kind, id) ==
    /\ InSession /\ Reports(id)
    /\ Commit(ev_session_error(Cur, kind, id))
    /\ KeepPoll

EvProtocolError(id, proto_id) ==
    /\ InSession /\ Reports(id)
    /\ Commit(ev_protocol_error(Cur, id, proto_id))
    /\ KeepPoll

EvDialError(address) ==
    /\ InSession /\ HasFuture(Fut("dial", address, ""))
    /\ Commit(ev_dial_error(Without(Cur, Fut("dial", address, "")), address))
    /\ KeepPoll

EvListenError(address) ==
    /\ InSession /\ HasFuture(Fut("listen", address, ""))
    /\ Commit(ev_listen_error(Without(Cur, Fut("listen", address, "")), address))
    /\ KeepPoll

EvListenStart(address) ==
    /\ InSession /\ HasFuture(Fut("listen", address, ""))
    /\ \E results \in [1..(Len(listens) + 1) -> ListenResults] :
           Commit(ev_listen_start(Without(Cur, Fut("listen", address, "")), address, results))
    /\ KeepPoll

EvListenStartNoAccept(address) ==
    /\ InSession /\ HasFuture(Fut("listen", address, ""))
    /\ \E results \in [1..(Len(listens) + 1) -> QuietResults] :
           Commit(ev_listen_start(Without(Cur, Fut("listen", address, "")), address, results))
    /\ KeepPoll

EvDialStart(address) ==
    /\ InSession /\ HasFuture(Fut("dial", address, ""))
    /\ Commit(ev_dial_start(Without(Cur, Fut("dial", address, "")), address))
    /\ KeepPoll

(***************************************************************************)
(* user_task_poll: one task taken from the quick or the normal channel     *)
(***************************************************************************)
InUser == pc = "user"

TaskIds == 1..MaxSession

DialTargets == {TargetAll, TargetSingle(1)}

\* the Vec of a Multi target may name a session more than once
MultiIds == {<< 1, 1 >>, << 2, 1, 2 >>}

SessionTargets ==
    {SessionAll} \cup {SessionSingle(id) : id \in TaskIds} \cup {SessionMulti(ids) : ids \in MultiIds}

TaskProtocolMessage(target, proto_id, priority) ==
    /\ InUser
    /\ Commit(task_protocol_message(Cur, target, proto_id, priority))
    /\ KeepPoll

TaskDial(address, target, ok) ==
    /\ InUser
    /\ Commit(task_dial(Cur, address, target, ok))
    /\ KeepPoll

TaskListen(address, ok) ==
    /\ InUser
    /\ Commit(task_listen(Cur, address, ok))
    /\ KeepPoll

TaskDisconnect(session_id) ==
    /\ InUser
    /\ Commit(task_disconnect(Cur, session_id))
    /\ KeepPoll

TaskFutureTask ==
    /\ InUser
    /\ \E room \in Rooms : Commit(task_future_task(Cur, room))
    /\ KeepPoll

TaskSetProtocolNotify(proto_id) ==
    /\ InUser
    /\ Commit(task_protocol_notify(Cur, proto_id, SetNotify))
    /\ KeepPoll

TaskRemoveProtocolNotify(proto_id) ==
    /\ InUser
    /\ Commit(task_protocol_notify(Cur, proto_id, RemoveNotify))
    /\ KeepPoll

TaskSetProtocolSessionNotify(session_id, proto_id) ==
    /\ InUser
    /\ Commit(task_set_session_notify(Cur, session_id, proto_id))
    /\ KeepPoll

TaskSetProtocolSessionNotifyRacing(session_id, proto_id, race) ==
    /\ InUser
    /\ Commit(task_set_session_notify_racing(Cur, session_id, proto_id, race))
    /\ KeepPoll

TaskRemoveProtocolSessionNotify(session_id, proto_id) ==
    /\ InUser
    /\ Commit(task_remove_session_notify(Cur, session_id, proto_id))
    /\ KeepPoll

TaskProtocolOpen(session_id, target) ==
    /\ InUser
    /\ Commit(task_protocol_open(Cur, session_id, target))
    /\ KeepPoll

TaskProtocolClose(session_id, proto_id) ==
    /\ InUser
    /\ Commit(task_protocol_close(Cur, session_id, proto_id))
    /\ KeepPoll

TaskShutdown(quick) ==
    /\ InUser
    /\ Commit(task_shutdown(Cur, quick))
    /\ KeepPoll

(***************************************************************************)
(* The tasks beside the core                                               *)
(***************************************************************************)
Running == pc # "done"

\* the session task takes the next event of one of its queues
SessionRecv(id, priority) ==
    /\ Running /\ id \in DOMAIN sessions /\ sessions[id].rx
    /\ IF is_high(priority)
       THEN sessions[id].quick # << >> /\ Commit([Cur EXCEPT !.sessions[id].quick = Tail(@)])
       ELSE sessions[id].normal # << >> /\ Commit([Cur EXCEPT !.sessions[id].normal = Tail(@)])
    /\ KeepPoll

\* the session task sets the closed flag of its context
SessionSetClosed(id) ==
    /\ Running /\ id \in DOMAIN sessions /\ ~sessions[id].closed
    /\ Commit([Cur EXCEPT !.sessions[id].closed = TRUE])
    /\ KeepPoll

\* the session task ends and drops its receivers
SessionEnd(id) ==
    /\ Running /\ id \in DOMAIN sessions /\ sessions[id].closed /\ sessions[id].rx
    /\ Commit([Cur EXCEPT !.sessions[id].rx = FALSE])
    /\ KeepPoll

\* a service-level handle stream takes an event / ends abnormally
ServiceHandleRecv(proto_id) ==
    /\ Running /\ proto_id \in DOMAIN service_proto_handles
    /\ service_proto_handles[proto_id].q # << >>
    /\ Commit([Cur EXCEPT !.service_proto_handles[proto_id].q = Tail(@)])
    /\ KeepPoll

ServiceHandleEnd(proto_id) ==
    /\ Running /\ proto_id \in DOMAIN service_proto_handles
    /\ service_proto_handles[proto_id].open
    /\ Commit([Cur EXCEPT !.service_proto_handles[proto_id].open = FALSE])
    /\ KeepPoll

\* a session-level handle stream takes an event / ends abnormally
SessionHandleRecv(key) ==
    /\ Running /\ key \in DOMAIN session_proto_handles
    /\ session_proto_handles[key].q # << >>
    /\ Commit([Cur EXCEPT !.session_proto_handles[key].q = Tail(@)])
    /\ KeepPoll

SessionHandleEnd(key) ==
    /\ Running /\ key \in DOMAIN session_proto_handles
    /\ session_proto_handles[key].open
    /\ Commit([Cur EXCEPT !.session_proto_handles[key].open = FALSE])
    /\ KeepPoll

\* the timer task of set_delay: notify, then reset the flag
DelayFire ==
    /\ Running /\ delay
    /\ Commit([Cur EXCEPT !.delay = FALSE])
    /\ KeepPoll

Events ==
    \/ \E id \in TaskIds : EvSessionClose(id)
    \/ \E k \in Keys, a \in Addrs, ty \in {Inbound, Outbound} : EvHandshakeSuccess(k, a, ty)
    \/ \E a \in Addrs, ty \in {Inbound, Outbound} : EvHandshakeFail(a, ty)
    \/ \E id \in TaskIds, p \in Protos : EvProtocolOpen(id, p)
    \/ \E id \in TaskIds, p \in Protos : EvProtocolMessage(id, p)
    \/ \E id \in TaskIds, p \in Protos : EvProtocolClose(id, p)
    \/ \E id \in TaskIds, kind \in {"ProtocolSelectError", "SessionTimeout", "MuxerError"} :
           EvSessionError(kind, id)
    \/ \E id \in TaskIds, p \in Protos : EvProtocolError(id, p)
    \/ \E a \in DialAddrs : EvDialError(a)
    \/ \E a \in ListenAddrs : EvListenError(a)
    \/ \E a \in ListenAddrs : EvListenStart(a)
    \/ \E a \in DialAddrs : EvDialStart(a)

Tasks ==
    \/ \E t \in SessionTargets, p \in MsgProtos, pr \in {High, Normal} : TaskProtocolMessage(t, p, pr)
    \/ \E a \in DialAddrs, t \in DialTargets, ok \in BOOLEAN : TaskDial(a, t, ok)
    \/ \E a \in ListenAddrs, ok \in BOOLEAN : TaskListen(a, ok)
    \/ \E id \in TaskIds : TaskDisconnect(id)
    \/ TaskFutureTask
    \/ \E p \in Protos : TaskSetProtocolNotify(p)
    \/ \E p \in Protos : TaskRemoveProtocolNotify(p)
    \/ \E id \in TaskIds, p \in Protos : TaskSetProtocolSessionNotify(id, p)
    \/ \E id \in TaskIds, p \in Protos : TaskRemoveProtocolSessionNotify(id, p)
    \/ \E id \in TaskIds, t \in DialTargets : TaskProtocolOpen(id, t)
    \/ \E id \in TaskIds, p \in Protos : TaskProtocolClose(id, p)
    \/ \E quick \in BOOLEAN : TaskShutdown(quick)

Pre ==
    \/ \E a \in ListenAddrs, ok \in BOOLEAN : PreListen(a, ok)
    \/ \E a \in DialAddrs, t \in DialTargets, ok \in BOOLEAN : PreDial(a, t, ok)

\* one turn of poll that does not end at the head check
Turn ==
    \/ PollHead
    \/ ListenPoll
    \/ SessionPollEnd
    \/ PollTail

Poll == PollHeadDone \/ Turn

Beside ==
    \/ \E id \in TaskIds, pr \in {High, Normal} : SessionRecv(id, pr)
    \/ \E id \in TaskIds : SessionSetClosed(id)
    \/ \E id \in TaskIds : SessionEnd(id)
    \/ \E p \in Protos : ServiceHandleRecv(p)
    \/ \E p \in Protos : ServiceHandleEnd(p)
    \/ \E key \in TaskIds \X Protos : SessionHandleRecv(key)
    \/ \E key \in TaskIds \X Protos : SessionHandleEnd(key)
    \/ DelayFire

Next == Pre \/ Poll \/ Events \/ Tasks \/ Beside

Spec == Init /\ [][Next]_vars

(***************************************************************************)
(* Sessions: the ways into session_open (handshake results, and dial start *)
(* or accept when no key pair is configured) and the ways out of it.  No   *)
(* protocol handle is configured, no substream is opened and the user      *)
(* sends no message.                                                       *)
(***************************************************************************)
SessionConfigs ==
    {c \in Configs : /\ ~c.keep_buffer /\ c.key_pair = c.forever
                     /\ c.service_handles = {} /\ c.session_handles = {} /\ c.event = {}}

InitSession == \E c \in SessionConfigs : InitCore(c) /\ InitManager

NextSession ==
    \/ \E a \in ListenAddrs : PreListen(a, TRUE)
    \/ \E a \in DialAddrs : PreDial(a, TargetAll, TRUE)
    \/ Poll
    \/ \E a \in DialAddrs : TaskDial(a, TargetAll, TRUE)
    \/ TaskShutdown(TRUE)
    \/ \E id \in TaskIds : EvSessionClose(id)
    \/ \E k \in Keys, a \in Addrs, ty \in {Inbound, Outbound} : EvHandshakeSuccess(k, a, ty)
    \/ \E a \in ListenAddrs : EvListenStart(a)
    \/ \E a \in DialAddrs : EvDialStart(a)

SpecSession == InitSession /\ [][NextSession]_vars

(***************************************************************************)
(* Listeners: Listen tasks, the results of the listen futures, accepts and *)
(* listener failures, shutdown.                                            *)
(***************************************************************************)
ListenConfigs ==
    {c \in Configs : /\ c.key_pair /\ ~c.keep_buffer
                     /\ c.service_handles = {} /\ c.session_handles = {} /\ c.event = {}}

InitListen == \E c \in ListenConfigs : InitCore(c) /\ InitManager

NextListen ==
    \/ Poll
    \/ \E a \in ListenAddrs, ok \in BOOLEAN : TaskListen(a, ok)
    \/ \E quick \in BOOLEAN : TaskShutdown(quick)
    \/ \E a \in RemoteAddrs : EvHandshakeFail(a, Inbound)
    \/ \E a \in ListenAddrs : EvListenError(a)
    \/ \E a \in ListenAddrs : EvListenStart(a)
    \/ DelayFire

SpecListen == InitListen /\ [][NextListen]_vars

(***************************************************************************)
(* Protocol streams: sessions opened by dialling without a key pair, their *)
(* substreams opened and closed by the session task or on the user's       *)
(* request (those of session 1; another session may be live beside it),    *)
(* with a session-level handle and event output for protocol 1.            *)
(***************************************************************************)
ProtoConfigs ==
    {c \in Configs : /\ ~c.key_pair /\ ~c.keep_buffer /\ c.forever
                     /\ c.service_handles = {} /\ c.session_handles = {1} /\ c.event = {1}}

InitProto == \E c \in ProtoConfigs : InitCore(c) /\ InitManager

PlainAddrs == {a \in DialAddrs : a.peer = None}

\* the session whose substreams are opened and closed
ProtoIds == {1}

NextProto ==
    \/ Turn
    \/ \E a \in PlainAddrs : TaskDial(a, TargetAll, TRUE)
    \/ \E a \in PlainAddrs : EvDialStart(a)
    \/ \E id \in TaskIds : EvSessionClose(id)
    \/ \E id \in ProtoIds, p \in Protos : EvProtocolOpen(id, p)
    \/ \E id \in ProtoIds, p \in Protos : EvProtocolMessage(id, p)
    \/ \E id \in ProtoIds, p \in Protos : EvProtocolClose(id, p)
    \/ \E id \in ProtoIds, t \in DialTargets : TaskProtocolOpen(id, t)
    \/ \E id \in ProtoIds, p \in Protos : TaskProtocolClose(id, p)
    \/ \E id \in TaskIds, pr \in {High, Normal} : SessionRecv(id, pr)
    \/ TaskShutdown(TRUE)

SpecProto == InitProto /\ [][NextProto]_vars

(***************************************************************************)
(* Outbound messages: sessions opened by dialling without a key pair, the  *)
(* user's ProtocolMessage and Disconnect tasks, the session tasks taking   *)
(* events from their queues and setting their closed flags.                *)
(***************************************************************************)
MsgConfigs ==
    {c \in Configs : /\ ~c.key_pair /\ ~c.keep_buffer /\ c.forever
                     /\ c.service_handles = {} /\ c.session_handles = {} /\ c.event = {}}

InitMsg == \E c \in MsgConfigs : InitCore(c) /\ InitManager

NextMsg ==
    \/ Turn
    \/ \E a \in PlainAddrs : TaskDial(a, TargetAll, TRUE)
    \/ \E a \in PlainAddrs : EvDialStart(a)
    \/ \E id \in TaskIds : EvSessionClose(id)
    \/ \E t \in SessionTargets, p \in MsgProtos, pr \in {High, Normal} : TaskProtocolMessage(t, p, pr)
    \/ \E id \in TaskIds : TaskDisconnect(id)
    \/ \E id \in TaskIds, pr \in {High, Normal} : SessionRecv(id, pr)
    \/ \E id \in TaskIds : SessionSetClosed(id)

SpecMsg == InitMsg /\ [][NextMsg]_vars

(***************************************************************************)
(* Closing sessions: sessions opened by dialling, with a session-level     *)
(* handle for protocol 1, closed by their task's SessionClose event, by    *)
(* the closed flag that distribute_to_user_level sees when a notify is set *)
(* for a session-level handle, or by a quick shutdown.                     *)
(***************************************************************************)
NextClose ==
    \/ Turn
    \/ \E a \in PlainAddrs : TaskDial(a, TargetAll, TRUE)
    \/ \E a \in PlainAddrs : EvDialStart(a)
    \/ \E id \in TaskIds : EvSessionClose(id)
    \/ \E id \in TaskIds : SessionSetClosed(id)
    \/ \E id \in TaskIds : TaskSetProtocolSessionNotify(id, 1)
    \/ TaskShutdown(TRUE)

SpecClose == InitProto /\ [][NextClose]_vars

(***************************************************************************)
(* Scenario: a late ProtocolOpen.  A session task sets its closed flag;    *)
(* the core closes the session when a dispatch round sees the flag, while  *)
(* a ProtocolOpen event of that task may still be on its way.              *)
(***************************************************************************)
NextLate ==
    \/ Turn
    \/ \E a \in PlainAddrs : TaskDial(a, TargetAll, TRUE)
    \/ \E a \in PlainAddrs : EvDialStart(a)
    \/ \E id \in TaskIds : EvSessionClose(id)
    \/ \E id \in TaskIds : SessionSetClosed(id)
    \/ \E id \in TaskIds : TaskSetProtocolSessionNotify(id, 1)
    \/ \E id \in TaskIds, p \in Protos : EvProtocolOpen(id, p)

SpecLate == InitProto /\ [][NextLate]_vars

(***************************************************************************)
(* Inbound events: sessions opened by dialling, with a session-level       *)
(* handle for protocol 1; notifies are set and removed for it, and its     *)
(* handle stream takes events from its channel, between two handlers of    *)
(* the core or in the middle of a dispatch round.                          *)
(***************************************************************************)
Races == 1..MaxBuf

NextInbound ==
    \/ Turn
    \/ \E a \in PlainAddrs : TaskDial(a, TargetAll, TRUE)
    \/ \E a \in PlainAddrs : EvDialStart(a)
    \/ \E id \in TaskIds : EvSessionClose(id)
    \/ \E id \in TaskIds : TaskSetProtocolSessionNotify(id, 1)
    \/ \E id \in TaskIds : TaskRemoveProtocolSessionNotify(id, 1)
    \/ \E id \in TaskIds, race \in Races : TaskSetProtocolSessionNotifyRacing(id, 1, race)
    \/ \E key \in TaskIds \X {1} : SessionHandleRecv(key)

SpecInbound == InitProto /\ [][NextInbound]_vars

(***************************************************************************)
(* Protocol handles: a service-level and a session-level handle for        *)
(* protocol 1, sessions opened by dialling, listeners to which nobody      *)
(* connects, notifies set, listen addresses updated; the handle streams    *)
(* take events from their channels or end abnormally.                      *)
(***************************************************************************)
HandleConfigs ==
    {c \in Configs : /\ ~c.key_pair /\ ~c.keep_buffer /\ c.forever
                     /\ c.service_handles = {1} /\ c.session_handles = {1} /\ c.event = {}}

InitHandle == \E c \in HandleConfigs : InitCore(c) /\ InitManager

\* the owner dials one peer
DialOnce(a) == next_session = 0 /\ dial_protocols = EmptyMap /\ TaskDial(a, TargetAll, TRUE)

NextHandle ==
    \/ PollHead
    \/ ListenPollNoAccept
    \/ SessionPollEnd
    \/ PollTail
    \/ \E a \in ListenAddrs : TaskListen(a, TRUE)
    \/ \E a \in ListenAddrs : EvListenStartNoAccept(a)
    \/ \E a \in PlainAddrs : DialOnce(a)
    \/ \E a \in PlainAddrs : EvDialStart(a)
    \/ ServiceHandleRecv(1)
    \/ ServiceHandleEnd(1)
    \/ \E id \in ProtoIds : SessionHandleRecv(<< id, 1 >>)
    \/ \E id \in ProtoIds : SessionHandleEnd(<< id, 1 >>)

SpecHandle == InitHandle /\ [][NextHandle]_vars

(***************************************************************************)
(* Scenario: tearing sessions down.  Dialled sessions with a session-level *)
(* handle for protocol 1, protocols opened by the peers, messages of both  *)
(* priorities waiting in the buffers, notify events waiting for a full     *)
(* handle channel, with and without keep_buffer.                           *)
(***************************************************************************)
TearConfigs ==
    {c \in Configs : /\ ~c.key_pair
                     /\ c.service_handles = {} /\ c.session_handles = {1} /\ c.event = {1}}

InitTear == \E c \in TearConfigs : InitCore(c) /\ InitManager

\* the owner dials one peer before running the service
PreDialOnce(a) == dial_protocols = EmptyMap /\ PreDial(a, TargetAll, TRUE)

NextTear ==
    \/ Poll
    \/ \E a \in PlainAddrs : PreDialOnce(a)
    \/ \E a \in PlainAddrs : DialOnce(a)
    \/ \E a \in PlainAddrs : EvDialStart(a)
    \/ \E id \in ProtoIds, p \in Protos : EvProtocolOpen(id, p)
    \/ \E id \in ProtoIds : EvSessionClose(id)
    \/ \E id \in ProtoIds : TaskSetProtocolSessionNotify(id, 1)
    \/ \E id \in ProtoIds, pr \in {High, Normal} : TaskProtocolMessage(SessionSingle(id), 1, pr)
    \/ \E id \in ProtoIds : TaskDisconnect(id)
    \/ TaskShutdown(TRUE)

SpecTear == InitTear /\ [][NextTear]_vars

(***************************************************************************)
(* Scenario: several destinations.  Two dialled sessions take messages of  *)
(* both priorities, two protocols with a service-level handle take notify  *)
(* events; the session tasks and the handle streams take events out of     *)
(* their queues when they run.                                             *)
(***************************************************************************)
LineConfigs ==
    {c \in Configs : /\ ~c.key_pair /\ ~c.keep_buffer /\ c.forever
                     /\ c.service_handles = Protos /\ c.session_handles = {} /\ c.event = {}}

InitLine == \E c \in LineConfigs : InitCore(c) /\ InitManager

NextLine ==
    \/ Turn
    \/ \E a \in PlainAddrs : TaskDial(a, TargetAll, TRUE)
    \/ \E a \in PlainAddrs : EvDialStart(a)
    \/ \E id \in TaskIds, pr \in {High, Normal} : TaskProtocolMessage(SessionSingle(id), 1, pr)
    \/ \E id \in TaskIds, pr \in {High, Normal} : SessionRecv(id, pr)
    \/ \E p \in Protos : TaskSetProtocolNotify(p)
    \/ \E p \in Protos : ServiceHandleRecv(p)

SpecLine == InitLine /\ [][NextLine]_vars

(***************************************************************************)
(* Scenario: the control channels.  One peer is dialled before the run;    *)
(* each turn of poll takes what the quick and the normal channel hold      *)
(* through user_task_poll and goes on to the tail; the session task takes  *)
(* events out of its queues and the timer of set_delay fires.              *)
(***************************************************************************)
UserConfigs ==
    {c \in Configs : /\ ~c.key_pair /\ ~c.keep_buffer /\ c.forever
                     /\ c.service_handles = {} /\ c.session_handles = {} /\ c.event = {}}

InitUser == \E c \in UserConfigs : InitCore(c) /\ InitManager

UserTasks == {TaskMessage(1, High), TaskMessage(1, Normal), TaskDisconnectOf(2)}

\* what a control channel may hold when user_task_poll runs
QuickChannel == {<< >>} \cup {<< t >> : t \in UserTasks} \cup {<< t, u >> : t, u \in UserTasks}

NormalChannel == QuickChannel

\* user_task_poll on what the channels hold, then the tail of poll
UserTaskPoll ==
    /\ pc = "user"
    /\ \E quick \in QuickChannel, normal \in NormalChannel,
          room \in IF pending_tasks = << >> THEN {0} ELSE Rooms :
           LET new == send_pending_task(user_task_poll(Cur, quick, normal).st, room)
           IN  IF Drained(new)
               THEN Commit([new EXCEPT !.shutdown = TRUE]) /\ pc' = "done"
               ELSE Commit(new) /\ pc' = "idle"
    /\ UNCHANGED << started, manager_vars >>

NextUser ==
    \/ PollHead
    \/ ListenPoll
    \/ SessionPollEnd
    \/ UserTaskPoll
    \/ \E a \in PlainAddrs : PreDialOnce(a)
    \/ \E a \in PlainAddrs : EvDialStart(a)
    \/ \E pr \in {High, Normal} : SessionRecv(1, pr)
    \/ DelayFire

SpecUser == InitUser /\ [][NextUser]_vars

(***************************************************************************)
(* Scenario: the delay task.  set_delay spawns a task that, when its time  *)
(* has come, notifies the task that called set_delay and then resets the   *)
(* `delay` flag; the two steps are separate, and the notified task may be  *)
(* polled on another thread between them.  The poll turns are those of the *)
(* control-channel scenario.                                               *)
(***************************************************************************)
\* a step of poll: after[FALSE] is the state it leads to from Cur, and
\* after[TRUE] the one it leads to from Cur with a cleared flag.  set_delay
\* was called in it iff after[TRUE] has the flag set, and a delay task was
\* spawned iff the flag was clear before and is set after.
Timed(after) ==
    /\ Commit(after[FALSE])
    /\ asked' = (asked \/ after[TRUE].delay)
    /\ timer' = IF ~delay /\ after[FALSE].delay THEN "armed" ELSE timer

\* the state a step starts from, with the flag as it is or cleared
From(clear) == IF clear THEN [Cur EXCEPT !.delay = FALSE] ELSE Cur

KeepTasks == UNCHANGED << signals, next_id, task_chan, id_chan, wrappers, manager,
                          senders_alive, submitted >>

\* the head of a poll of the Service task; the notification is taken
TimedPollHead ==
    /\ pc = "idle"
    /\ ~Drained(Cur)
    /\ \E room \in IF started THEN {0} ELSE Rooms :
           Timed([clear \in BOOLEAN |-> poll_head(From(clear), ~started, room)])
    /\ woken' = FALSE
    /\ started' = TRUE
    /\ pc' = "listen"
    /\ KeepTasks

\* what a control channel may hold in this scenario
ShortChannel == {<< >>} \cup {<< t >> : t \in UserTasks}

\* user_task_poll on what the channels hold, then the tail of poll
TimedUserTaskPoll ==
    /\ pc = "user"
    /\ \E quick \in ShortChannel, normal \in ShortChannel,
          room \in IF pending_tasks = << >> THEN {0} ELSE Rooms :
           Timed([clear \in BOOLEAN |->
                      send_pending_task(user_task_poll(From(clear), quick, normal).st, room)])
    /\ ~Drained(Cur')
    /\ pc' = "idle"
    /\ UNCHANGED << started, woken >>
    /\ KeepTasks

\* the delay task, first step: notify.notify()
TimerNotify ==
    /\ timer = "armed"
    /\ timer' = "fired"
    /\ woken' = TRUE
    /\ asked' = FALSE
    /\ KeepTasks
    /\ UNCHANGED core_vars

\* the delay task, second step: delay.store(false)
TimerReset ==
    /\ timer = "fired"
    /\ Commit([Cur EXCEPT !.delay = FALSE])
    /\ timer' = "none"
    /\ UNCHANGED << started, pc, woken, asked >>
    /\ KeepTasks

NextDelay ==
    \/ TimedPollHead
    \/ ListenPoll
    \/ SessionPollEnd
    \/ TimedUserTaskPoll
    \/ \E a \in PlainAddrs : PreDialOnce(a)
    \/ \E a \in PlainAddrs : EvDialStart(a)
    \/ \E pr \in {High, Normal} : SessionRecv(1, pr)
    \/ TimerNotify
    \/ TimerReset

SpecDelay == InitUser /\ [][NextDelay]_vars

\* the timer runs: a spawned delay task takes each of its two steps
SpecDelayFair == SpecDelay /\ WF_vars(TimerNotify) /\ WF_vars(TimerReset)

(***************************************************************************)
(* Dialling: Service::dial before the run, Dial tasks, and what the dial   *)
(* and handshake futures report.  No listener, so no inbound connection.   *)
(***************************************************************************)
DialConfigs ==
    {c \in Configs : /\ ~c.keep_buffer
                     /\ c.service_handles = {} /\ c.session_handles = {} /\ c.event = {}}

InitDial == \E c \in DialConfigs : InitCore(c) /\ InitManager

NextDial ==
    \/ Poll
    \/ \E a \in PlainAddrs, t \in DialTargets : PreDial(a, t, TRUE)
    \/ \E a \in PlainAddrs, t \in DialTargets, ok \in BOOLEAN : TaskDial(a, t, ok)
    \/ \E a \in PlainAddrs : EvDialStart(a)
    \/ \E a \in PlainAddrs : EvDialError(a)
    \/ \E a \in PlainAddrs : EvHandshakeFail(a, Outbound)
    \/ \E k \in Keys, a \in PlainAddrs : EvHandshakeSuccess(k, a, Outbound)
    \/ \E id \in TaskIds : EvSessionClose(id)

SpecDial == InitDial /\ [][NextDial]_vars

(***************************************************************************)
(* Shutdown: listeners come up (Listen tasks and their futures), sessions  *)
(* are opened for the connections they accept (no key pair), Shutdown      *)
(* tasks arrive, the session tasks take their events and close.            *)
(***************************************************************************)
ShutConfigs ==
    {c \in Configs : /\ ~c.key_pair /\ ~c.keep_buffer
                     /\ c.service_handles = {} /\ c.session_handles = {} /\ c.event = {}}

InitShut == \E c \in ShutConfigs : InitCore(c) /\ InitManager

NextShut ==
    \/ Poll
    \/ \E a \in ListenAddrs : TaskListen(a, TRUE)
    \/ \E quick \in BOOLEAN : TaskShutdown(quick)
    \/ \E a \in ListenAddrs : EvListenStart(a)
    \/ \E id \in TaskIds : EvSessionClose(id)
    \/ \E id \in TaskIds : SessionRecv(id, Normal)
    \/ \E id \in TaskIds : SessionSetClosed(id)

SpecShut == InitShut /\ [][NextShut]_vars

\* a session task that serves its queue: it takes the next event, and closes
\* (sets the closed flag of its context) when that is the SessionClose request
SessionServe(id) ==
    /\ Running /\ id \in DOMAIN sessions /\ sessions[id].rx
    /\ sessions[id].normal # << >>
    /\ Commit([Cur EXCEPT !.sessions[id].normal = Tail(@),
                          !.sessions[id].closed =
                              @ \/ Head(sessions[id].normal).t = "SessionClose"])
    /\ KeepPoll

\* the SessionClose event of a session task that has closed reaches the core
ClosedReport(id) ==
    /\ id \in DOMAIN sessions /\ sessions[id].closed
    /\ EvSessionClose(id)

\* the owner sends Listen tasks, then one Shutdown, and nothing after it
ListenBeforeShutdown(a) == state.k # "PreShutdown" /\ TaskListen(a, TRUE)

NextShutFair ==
    \/ Poll
    \/ \E a \in ListenAddrs : ListenBeforeShutdown(a)
    \/ TaskShutdown(FALSE)
    \/ \E a \in ListenAddrs : EvListenStart(a)
    \/ \E id \in TaskIds : SessionServe(id)
    \/ \E id \in TaskIds : ClosedReport(id)

\* Stream::poll is the only step that moves pc, and it can be taken whenever
\* the stream has not returned Done
PollTurn ==
    /\ pc # "done"
    /\ \E p \in {"idle", "listen", "session", "user", "done"} : p # pc /\ pc' = p

\* the future-task manager empties its channel, so a send_pending_task finds
\* room for all the pending tasks
TasksSent == pc = "user" /\ pending_tasks # << >> /\ pending_tasks' = << >>

\* the runtime keeps polling the service and the session tasks, what a closed
\* session task has sent is received, and the pending tasks are eventually sent
FairShut ==
    /\ WF_pc(PollTurn)
    /\ SF_pending_tasks(TasksSent)
    /\ \A id \in TaskIds : WF_vars(SessionServe(id)) /\ SF_vars(ClosedReport(id))

SpecShutFair == InitShut /\ [][NextShutFair]_vars /\ FairShut

(***************************************************************************)
(* FutureTaskManager (future_task.rs) and the tasks it spawns              *)
(***************************************************************************)
\* BoxedFutureTask: one that never completes (empty()) or one that does
TaskKinds == {"empty", "finite"}

\* the record the manager's methods work on
Mgr == [signals |-> signals, next_id |-> next_id, task_chan |-> task_chan,
        id_chan |-> id_chan, wrappers |-> wrappers, manager |-> manager,
        senders_alive |-> senders_alive, shutdown |-> shutdown]

MgrCommit(m) ==
    /\ signals' = m.signals
    /\ next_id' = m.next_id
    /\ task_chan' = m.task_chan
    /\ id_chan' = m.id_chan
    /\ wrappers' = m.wrappers
    /\ manager' = m.manager
    /\ senders_alive' = m.senders_alive
    /\ UNCHANGED timer_vars

add_task(m, task) ==
    LET task_id == m.next_id + 1
    IN  [m EXCEPT !.next_id = task_id,
                  !.signals = @ \cup {task_id},
                  !.wrappers = MapInsert(@, task_id,
                                   [task |-> task, at |-> "select", signal |-> FALSE])]

remove_task_keep(m, id) == m

remove_task(m, id) == [m EXCEPT !.signals = @ \ {id}]

drop_silent(m) == [m EXCEPT !.signals = {}, !.manager = "dropped",
                            !.task_chan = << >>, !.id_chan = << >>]

\* Drop for FutureTaskManager, then the drop of its fields (both receivers)
drop(m) ==
    [m EXCEPT !.wrappers = [id \in DOMAIN @ |->
                               IF id \in m.signals THEN [@[id] EXCEPT !.signal = TRUE]
                               ELSE @[id]],
              !.signals = {},
              !.manager = "dropped",
              !.task_chan = << >>,
              !.id_chan = << >>]

RECURSIVE add_tasks(_, _)
add_tasks(m, tasks) ==
    IF tasks = << >> THEN m ELSE add_tasks(add_task(m, Head(tasks)), Tail(tasks))

RECURSIVE remove_tasks(_, _)
remove_tasks(m, ids) ==
    IF ids = << >> THEN m ELSE remove_tasks(remove_task(m, Head(ids)), Tail(ids))

\* Stream::poll for FutureTaskManager; "ended" stands for Ready(None)
manager_poll(m) ==
    IF m.shutdown THEN [m EXCEPT !.manager = "ended"]
    ELSE LET m1 == add_tasks([m EXCEPT !.task_chan = << >>], m.task_chan)
         IN  IF ~m.senders_alive THEN [m1 EXCEPT !.manager = "ended"]
             ELSE remove_tasks([m1 EXCEPT !.id_chan = << >>], m1.id_chan)

\* a holder of future_task_sender sends a task
Submit(task) ==
    /\ manager # "dropped" /\ senders_alive
    /\ Len(task_chan) < ChanCap /\ submitted < MaxTasks
    /\ MgrCommit([Mgr EXCEPT !.task_chan = Append(@, task)])
    /\ submitted' = submitted + 1
    /\ UNCHANGED core_vars

\* the last sender of the task channel is dropped
DropSenders ==
    /\ senders_alive
    /\ MgrCommit([Mgr EXCEPT !.senders_alive = FALSE])
    /\ UNCHANGED << submitted, core_vars >>

ManagerPoll ==
    /\ manager = "alive"
    /\ MgrCommit(manager_poll(Mgr))
    /\ UNCHANGED << submitted, core_vars >>

\* the runtime drops the for_each future that owned the ended manager
ManagerDrop ==
    /\ manager = "ended"
    /\ MgrCommit(drop(Mgr))
    /\ UNCHANGED << submitted, core_vars >>

\* the tasks the manager spawned and that have not finished
Live == {id \in DOMAIN wrappers : wrappers[id].at # "done"}

\* the boxed task of a wrapper completes by itself
TaskComplete(id) ==
    /\ id \in DOMAIN wrappers
    /\ wrappers[id].at = "select" /\ wrappers[id].task = "finite"
    /\ MgrCommit([Mgr EXCEPT !.wrappers[id].at = "send"])
    /\ UNCHANGED << submitted, core_vars >>

\* the one-shot receiver of a wrapper yields the stop signal
WrapperStop(id) ==
    /\ id \in DOMAIN wrappers
    /\ wrappers[id].at = "select" /\ wrappers[id].signal
    /\ MgrCommit([Mgr EXCEPT !.wrappers[id].at = "send"])
    /\ UNCHANGED << submitted, core_vars >>

\* id_sender.send(task_id): every clone of the sender has its own slot, so
\* the send succeeds unless the receiver is gone
WrapperSend(id) ==
    /\ id \in DOMAIN wrappers
    /\ wrappers[id].at = "send"
    /\ MgrCommit([Mgr EXCEPT !.wrappers[id].at = "done",
                             !.id_chan = IF manager = "dropped" THEN @ ELSE Append(@, id)])
    /\ UNCHANGED << submitted, core_vars >>

FutureTaskIds == 1..MaxTasks

NextFTM ==
    \/ PollHeadDone
    \/ \E task \in TaskKinds : Submit(task)
    \/ DropSenders
    \/ ManagerPoll
    \/ ManagerDrop
    \/ \E id \in FutureTaskIds : TaskComplete(id)
    \/ \E id \in FutureTaskIds : WrapperStop(id)
    \/ \E id \in FutureTaskIds : WrapperSend(id)

\* the service of the manager is one that is not to run forever
FTMConfigs ==
    {c \in Configs : /\ ~c.key_pair /\ ~c.keep_buffer /\ ~c.forever
                     /\ c.service_handles = {} /\ c.session_handles = {} /\ c.event = {}}

InitFTM == \E c \in FTMConfigs : InitCore(c) /\ InitManager

SpecFTM == InitFTM /\ [][NextFTM]_vars

\* the runtime polls every task that was woken
FairFTM ==
    /\ WF_vars(ManagerPoll)
    /\ WF_vars(ManagerDrop)
    /\ \A id \in FutureTaskIds : WF_vars(WrapperStop(id)) /\ WF_vars(WrapperSend(id))

SpecFTMFair == InitFTM /\ [][NextFTM]_vars /\ FairFTM

(***************************************************************************)
(* Properties                                                              *)
(***************************************************************************)
\* the callbacks of kind t made by the last handler
Called(t) == {i \in 1..Len(out) : out[i].t = t}

\* the handshakes in flight, as the inputs of a HandshakeSuccess event
Handshakes ==
    {h \in [public_key : Keys, address : Addrs, ty : {Inbound, Outbound}] :
        HasFuture(Fut("handshake", h.address, h.ty))}

\* what handle_session_event does with HandshakeSuccess h in the current state
AfterHandshake(h) ==
    ev_handshake_success(Without(Cur, Fut("handshake", h.address, h.ty)),
                         h.public_key, h.address, h.ty)

\* the live sessions that carry public key k
Carrying(k) == {id \in DOMAIN sessions : sessions[id].remote_pubkey = k}

\* C1: session ids are fresh and unique.  Every live id lies in 1..next_session
\* (so none is 0); in every step next_session does not decrease, the sessions
\* the step creates get exactly the ids next_session + 1 .. next_session' (an
\* id is taken only after the increment, so no earlier id, live or closed, is
\* ever used again), and an id that stays live keeps its one controller.
C1_FreshSessionIds ==
    /\ [](DOMAIN sessions \subseteq 1..next_session)
    /\ [][/\ next_session' >= next_session
          /\ DOMAIN sessions' \ DOMAIN sessions = (next_session + 1)..next_session'
          /\ \A id \in DOMAIN sessions' \cap DOMAIN sessions :
                 /\ sessions'[id].remote_pubkey = sessions[id].remote_pubkey
                 /\ sessions'[id].address = sessions[id].address
                 /\ sessions'[id].ty = sessions[id].ty]_vars

\* session 1 was opened and closed, and session_open has just created session 2
C1_SecondSessionAfterClose ==
    /\ next_session = 2
    /\ DOMAIN sessions = {2}
    /\ \E i \in Called("SessionOpen") : out[i].id = 2

\* C2: at most one live session per remote public key.  No two live sessions
\* carry the same public key (a session opened without a handshake carries
\* none), and for every handshake in flight whose public key is that of a live
\* session, handling its HandshakeSuccess leaves sessions and next_session as
\* they are and makes exactly one callback: DialerError for an outbound and
\* ListenError for an inbound connection, with RepeatedConnection(id of the
\* live session).
C2_OneSessionPerKey ==
    /\ \A k \in Keys : Cardinality(Carrying(k)) <= 1
    /\ \A h \in Handshakes :
           Carrying(h.public_key) # {} =>
               LET new == AfterHandshake(h)
               IN  /\ new.sessions = sessions
                   /\ new.next_session = next_session
                   /\ \E id \in Carrying(h.public_key) :
                          new.out = << CB(IF is_outbound(h.ty) THEN "DialerError" ELSE "ListenError",
                                          None, None, h.address, "RepeatedConnection", id) >>

\* a duplicate open has just been rejected: the last handler reported
\* RepeatedConnection with the id of a live session that carries a public key
C2_DuplicateRejected ==
    \E i \in Called("DialerError") \cup Called("ListenError") :
        /\ out[i].error = "RepeatedConnection"
        /\ out[i].aux \in DOMAIN sessions
        /\ sessions[out[i].aux].remote_pubkey # None
        /\ Called("SessionOpen") = {}

\* C3 as stated: for every handshake in flight, a public key whose peer-id
\* differs from the one in the address is rejected with PeerIdNotMatch, and
\* an address without peer-id gives a session stored under the address with
\* the derived peer-id appended.
C3_AsStated ==
    \A h \in Handshakes :
        LET new == AfterHandshake(h)
        IN  /\ (extract_peer_id(h.address) \notin {None, peer_id(h.public_key)}) =>
                   /\ new.out = << CB("DialerError", None, None, h.address, "PeerIdNotMatch", None) >>
                   /\ new.sessions = sessions
                   /\ new.next_session = next_session
            /\ extract_peer_id(h.address) = None =>
                   /\ new.next_session = next_session + 1
                   /\ new.next_session \in DOMAIN new.sessions
                   /\ new.sessions[new.next_session].address
                          = push_p2p(h.address, peer_id(h.public_key))

\* C3: for every handshake in flight whose public key no live session
\* carries: if the peer-id derived from the key differs from the peer-id in
\* the address, the only callback is DialerError{PeerIdNotMatch} and sessions
\* and next_session are unchanged; if the address carries no peer-id, the
\* session is created under the next id and its stored address is the given
\* one with the derived peer-id appended.
C3_PeerIdChecked ==
    \A h \in Handshakes :
        Carrying(h.public_key) = {} =>
            LET new == AfterHandshake(h)
            IN  /\ (extract_peer_id(h.address) \notin {None, peer_id(h.public_key)}) =>
                       /\ new.out = << CB("DialerError", None, None, h.address, "PeerIdNotMatch", None) >>
                       /\ new.sessions = sessions
                       /\ new.next_session = next_session
                /\ extract_peer_id(h.address) = None =>
                       /\ new.next_session = next_session + 1
                       /\ DOMAIN new.sessions = DOMAIN sessions \cup {new.next_session}
                       /\ new.sessions[new.next_session].address
                              = push_p2p(h.address, peer_id(h.public_key))
                       /\ \E i \in 1..Len(new.out) :
                              new.out[i].t = "SessionOpen" /\ new.out[i].id = new.next_session

\* a session dialled without peer-id is stored with the derived peer-id, and
\* the last handler has rejected a handshake with PeerIdNotMatch
C3_MismatchRejected ==
    /\ \E id \in DOMAIN sessions :
           /\ sessions[id].remote_pubkey # None
           /\ sessions[id].address = push_p2p([base |-> 1, peer |-> None],
                                              peer_id(sessions[id].remote_pubkey))
    /\ \E i \in Called("DialerError") : out[i].error = "PeerIdNotMatch"
    /\ Called("SessionOpen") = {}

\* C4 as stated: session_proto_handles has a key (s, p) only if s is a key of
\* sessions and p is a member of session_service_protos[s].
C4_AsStated ==
    \A key \in DOMAIN session_proto_handles :
        /\ key[1] \in DOMAIN sessions
        /\ key[1] \in DOMAIN session_service_protos
        /\ key[2] \in session_service_protos[key[1]]

\* how often event e stands in sequence q
Occurrences(q, e) == Cardinality({i \in 1..Len(q) : q[i] = e})

\* how often event e is held for session s: in write_buf or in its normal queue
Held(st, s, e) ==
    Occurrences(st.write_buf, e)
        + (IF s \in DOMAIN st.sessions THEN Occurrences(st.sessions[s].normal, e) ELSE 0)

\* protocol_close(s, p, Internal) leaves no handle (s, p) and no record of p for s
ClosedInternally(s, p) ==
    LET new == protocol_close(Cur, s, p, Internal)
    IN  /\ << s, p >> \notin DOMAIN new.session_proto_handles
        /\ s \in DOMAIN new.session_service_protos => p \notin new.session_service_protos[s]

Messages(q, s) ==
    Cardinality({i \in 1..Len(q) : q[i].t = "ProtocolMessage" /\ q[i].id = s})

\* C6 as stated: no step adds a ProtocolMessage for a session whose closed
\* flag is set to write_buf or to high_write_buf.
C6_AsStated ==
    [][\A s \in DOMAIN sessions \cap DOMAIN sessions' :
           sessions[s].closed =>
               /\ Messages(write_buf', s) <= Messages(write_buf, s)
               /\ Messages(high_write_buf', s) <= Messages(high_write_buf, s)]_vars

\* C6: no ProtocolMessage is ever sent to a session whose closed flag is set:
\* no step taken while sessions[s].closed holds adds a ProtocolMessage to
\* either queue of s, for the Single, Multi and All targets and for the
\* messages left in the write buffers.  (A message for s is dropped when a
\* dispatch round reaches it, unless s was found full earlier in the round:
\* then it is put back into its write buffer.)
C6_NoMessageSentToClosed ==
    [][\A s \in DOMAIN sessions \cap DOMAIN sessions' :
           sessions[s].closed =>
               /\ Messages(sessions'[s].normal, s) <= Messages(sessions[s].normal, s)
               /\ Messages(sessions'[s].quick, s) <= Messages(sessions[s].quick, s)]_vars

\* a dispatch round has found a closed session full and has left a
\* ProtocolMessage for it in write_buf
C6_MessageHeldForClosed ==
    \E s \in DOMAIN sessions :
        /\ sessions[s].closed
        /\ Messages(write_buf, s) > 0
        /\ \E i \in Called("SessionBlocked") : out[i].id = s

\* C7: whenever a step makes the Received callback for (s, p), p is recorded
\* in session_service_protos[s] when the step is taken (the session task
\* reports the messages of a substream between its open and its close).
C7_ReceivedWhileOpen ==
    [][\A i \in 1..Len(out') :
           out'[i].t = "Received" =>
               /\ out'[i].id \in DOMAIN session_service_protos
               /\ out'[i].proto_id \in session_service_protos[out'[i].id]]_vars

\* the last handler made the Received callback for a protocol recorded open
C7_ReceivedCalled ==
    \E i \in Called("Received") :
        /\ out[i].proto_id \in config.event
        /\ out[i].id \in DOMAIN session_service_protos
        /\ out[i].proto_id \in session_service_protos[out[i].id]

\* C8 as stated: the number of spawned tasks still running equals the number
\* of entries of signals, and signals is empty once the manager is dropped.
C8_AsStated ==
    /\ Cardinality(Live) = Cardinality(signals)
    /\ manager = "dropped" => signals = {}

\* the ids waiting in id_receiver
InTransit == {id_chan[i] : i \in 1..Len(id_chan)}

\* C8: until the manager is dropped, signals holds exactly the ids of the
\* spawned tasks that are still running and of the finished ones whose id
\* still waits in id_receiver, so the number of running tasks is at most the
\* number of entries and differs from it by the ids not yet taken; once the
\* manager is dropped, signals is empty (whatever is still running).
C8_SignalsTrackTasks ==
    /\ manager # "dropped" =>
           /\ signals = Live \cup InTransit
           /\ Live \cap InTransit = {}
           /\ Cardinality(Live) <= Cardinality(signals)
    /\ manager = "dropped" => signals = {}

\* a finished task is still counted: its id waits in id_receiver
C8_FinishedStillCounted ==
    /\ manager = "alive"
    /\ \E id \in signals : wrappers[id].at = "done" /\ id \in InTransit
    /\ Live # {}

\* C9: once the manager has stopped and been dropped, every task it spawned
\* that is still waiting on its boxed task has been sent the stop signal,
\* and eventually no spawned task is left running, the never-completing ones
\* included.
C9_DropStopsEveryTask ==
    /\ [](manager = "dropped" =>
              \A id \in DOMAIN wrappers : wrappers[id].at = "select" => wrappers[id].signal)
    /\ (manager = "dropped") ~> (Live = {})

\* the manager is dropped and a never-completing task has been stopped
C9_EmptyTaskStopped ==
    /\ manager = "dropped"
    /\ \E id \in DOMAIN wrappers :
           wrappers[id].task = "empty" /\ wrappers[id].at = "done" /\ wrappers[id].signal

\* the listen futures for address a that wait in pending_tasks
PendingListens(a) ==
    Cardinality({i \in 1..Len(pending_tasks) : pending_tasks[i] = Fut("listen", a, "")})

\* a listen on address a is under way: queued, running, or already a listener
ListenUnderway(a) ==
    \/ PendingListens(a) > 0
    \/ HasFuture(Fut("listen", a, ""))
    \/ \E i \in 1..Len(listens) : listens[i] = a

\* C10 as stated: once the service runs, a step taken while a listen on
\* address a is under way (whether or not it has produced ListenStart) adds
\* no listen future for a to pending_tasks.
C10_AsStated ==
    [][\A a \in ListenAddrs :
           (started /\ ListenUnderway(a)) => PendingListens(a)' <= PendingListens(a)]_vars

\* a dial to address a is in flight: its dial future is queued or running,
\* or the outbound handshake on its connection is running
DialInFlight(a) ==
    \/ \E i \in 1..Len(pending_tasks) : pending_tasks[i] = Fut("dial", a, "")
    \/ HasFuture(Fut("dial", a, ""))
    \/ HasFuture(Fut("handshake", a, Outbound))

\* C11 as stated: a Dial{a} task handled while a dial to a is in flight
\* changes nothing: no dial future, pending_tasks, the pending counter and
\* the TargetProtocol recorded for a as before, no callback.
C11_AsStated ==
    \A a \in PlainAddrs, t \in DialTargets :
        (InUser /\ DialInFlight(a)) => task_dial(Cur, a, t, TRUE) = Cur

\* the callbacks of kind t in the calls cbs of one handler
Calls(cbs, t) == {i \in 1..Len(cbs) : cbs[i].t = t}

\* ServiceHandle::handle_error was called
Errors(cbs) ==
    {i \in 1..Len(cbs) : cbs[i].t \in {"DialerError", "ListenError", "SessionBlocked",
                                        "ProtocolError", "ProtocolHandleError"}}

\* a Shutdown task has been handled and sessions are still draining
Draining == InUser /\ state.k = "PreShutdown" /\ DOMAIN sessions # {}

\* C12 as stated: a second Shutdown(false) handled while sessions are still
\* draining raises no error callback, emits no ListenClose, notifies no
\* SessionClose and leaves state = PreShutdown.
C12_AsStated ==
    Draining =>
        LET new == task_shutdown(Cur, FALSE)
        IN  /\ Errors(new.out) = {}
            /\ Calls(new.out, "ListenClose") = {}
            /\ Calls(new.out, "SessionClose") = {}
            /\ new.state.k = "PreShutdown"

\* C13 as stated: once state = PreShutdown, no step adds an entry to
\* sessions or to listens.
C13_AsStated ==
    [][state.k = "PreShutdown" =>
           /\ DOMAIN sessions' \subseteq DOMAIN sessions
           /\ Len(listens') <= Len(listens)]_vars

\* no listener, no session, no pending task
Empty == listens = << >> /\ sessions = EmptyMap /\ pending_tasks = << >>

\* C14: in Forever mode poll has returned Done only with state =
\* PreShutdown, which only a Shutdown task sets, and until then the state
\* stays Forever however empty the service is; in the other modes a poll
\* that starts with no listener, session or pending task and a state that
\* is PreShutdown or counts no pending connection returns Done at once, a
\* poll returns Done at its end exactly if that holds then, and poll returns
\* Done in no other case.
C14_DoneOnlyWhenDrained ==
    /\ [](config.forever => state.k \in {"Forever", "PreShutdown"})
    /\ []((config.forever /\ pc = "done") => state.k = "PreShutdown")
    /\ []((pc = "done") => (Empty /\ is_shutdown(state)))
    /\ [][(pc = "idle" /\ pc' # "idle") =>
              ((pc' = "done") <=> (Empty /\ is_shutdown(state)))]_vars
    /\ [][(pc = "user" /\ pc' # "user") =>
              ((pc' = "done") <=> (Empty' /\ is_shutdown(state')))]_vars

\* a service in Forever mode stands before a poll with nothing left: its one
\* session was opened and has been closed, and no Shutdown was handled
C14_ForeverStaysUp ==
    /\ config.forever /\ started /\ pc = "idle"
    /\ Empty /\ next_session > 0
    /\ state.k = "Forever"

\* the queue of session s and the write buffer of the core for a priority
QueueOf(st, s, priority) ==
    IF is_high(priority) THEN st.sessions[s].quick ELSE st.sessions[s].normal

BufferOf(st, priority) == IF is_high(priority) THEN st.high_write_buf ELSE st.write_buf

\* the events for session s in sequence q, in their order
EventsFor(q, s) == LET ForS(e) == e.id = s IN SelectSeq(q, ForS)

\* the SessionBlocked errors for s among the calls cbs of one handler
Blocked(cbs, s) == {i \in Calls(cbs, "SessionBlocked") : cbs[i].id = s}

\* session s is live and open, and no event for it waits in a write buffer
Unburdened(s) ==
    /\ s \in DOMAIN sessions /\ sessions[s].rx /\ ~sessions[s].closed
    /\ EventsFor(write_buf, s) = << >> /\ EventsFor(high_write_buf, s) = << >>

Targets(t, s) == t.k = "All" \/ contains(t.ids, s)

\* C15: a ProtocolMessage task for an open session s with no event waiting
\* in the write buffers goes into the queue of s while that has room, with
\* no SessionBlocked for s; once the queue holds its k events the message
\* stays in the write buffer of its priority, the delay is set and exactly
\* one SessionBlocked for s is raised in that round.  A later round sends
\* the waiting events, in their order, as far as the queue has room, and
\* raises SessionBlocked for s exactly once iff some still wait.
C15_Backpressure ==
    \A s \in TaskIds, pr \in {High, Normal} :
        /\ \A t \in SessionTargets, p \in MsgProtos :
               (InUser /\ Unburdened(s) /\ Targets(t, s)) =>
                   LET new == task_protocol_message(Cur, t, p, pr)
                       m == ProtocolMessage(s, p, pr)
                       other == IF is_high(pr) THEN Normal ELSE High
                   IN  /\ QueueOf(new, s, other) = QueueOf(Cur, s, other)
                       /\ EventsFor(BufferOf(new, other), s) = << >>
                       /\ IF Len(QueueOf(Cur, s, pr)) < QueueCap
                          THEN /\ QueueOf(new, s, pr) = Append(QueueOf(Cur, s, pr), m)
                               /\ EventsFor(BufferOf(new, pr), s) = << >>
                               /\ Blocked(new.out, s) = {}
                          ELSE /\ QueueOf(new, s, pr) = QueueOf(Cur, s, pr)
                               /\ EventsFor(BufferOf(new, pr), s) = << m >>
                               /\ new.delay
                               /\ Cardinality(Blocked(new.out, s)) = 1
        /\ LET other == IF is_high(pr) THEN Normal ELSE High
               waiting == IF s \in DOMAIN sessions THEN EventsFor(BufferOf(Cur, pr), s) ELSE << >>
           IN  (/\ s \in DOMAIN sessions /\ sessions[s].rx /\ ~sessions[s].closed
                /\ pc # "done"
                /\ waiting # << >>
                /\ EventsFor(BufferOf(Cur, other), s) = << >>) =>
                   LET new == distribute_to_session(Cur)
                       room == QueueCap - Len(QueueOf(Cur, s, pr))
                       n == IF Len(waiting) < room THEN Len(waiting) ELSE room
                   IN  /\ QueueOf(new, s, pr) = QueueOf(Cur, s, pr) \o SubSeq(waiting, 1, n)
                       /\ EventsFor(BufferOf(new, pr), s) = SubSeq(waiting, n + 1, Len(waiting))
                       /\ Cardinality(Blocked(new.out, s)) = IF n < Len(waiting) THEN 1 ELSE 0
                       /\ n < Len(waiting) => new.delay

\* the queue of a session holds its k messages, one more waits in write_buf,
\* the delay is set, and the last handler raised one SessionBlocked for it
C15_MessageDeferred ==
    \E s \in DOMAIN sessions :
        /\ ~sessions[s].closed
        /\ Len(sessions[s].normal) = QueueCap
        /\ Messages(sessions[s].normal, s) = QueueCap
        /\ Messages(write_buf, s) = 1 /\ Len(EventsFor(write_buf, s)) = 1
        /\ delay
        /\ Cardinality(Blocked(out, s)) = 1

\* C16: handling one ProtocolMessage task pushes one ProtocolMessage event
\* for every targeted key of sessions and none for any other id, also when
\* the Vec of a Multi target repeats an id: on return every open session
\* holds (in its queue or in the write buffer) one more such event if it is
\* targeted and as many as before if not, it holds the new one behind those
\* it held, and for no id does the number grow by more than one or grow
\* without the id being a targeted key of sessions.
C16_OneMessagePerTarget ==
    \A t \in SessionTargets, p \in MsgProtos, pr \in {High, Normal} :
        InUser =>
            LET new == task_protocol_message(Cur, t, p, pr)
                m == ProtocolMessage(0, p, pr)
                Held1(st, s) ==
                    LET e == [m EXCEPT !.id = s]
                    IN  Occurrences(st.write_buf, e) + Occurrences(st.high_write_buf, e)
                            + (IF s \in DOMAIN st.sessions
                               THEN Occurrences(st.sessions[s].normal, e)
                                        + Occurrences(st.sessions[s].quick, e)
                               ELSE 0)
            IN  /\ DOMAIN new.sessions = DOMAIN sessions
                /\ \A s \in TaskIds :
                       LET aimed == s \in DOMAIN sessions /\ Targets(t, s)
                       IN  /\ Held1(new, s) <= Held1(Cur, s) + (IF aimed THEN 1 ELSE 0)
                           /\ (s \in DOMAIN sessions /\ sessions[s].rx /\ ~sessions[s].closed) =>
                                  Held1(new, s) = Held1(Cur, s) + (IF aimed THEN 1 ELSE 0)

\* with two sessions open a task aimed at session 1 alone (Single(1), or the
\* Multi target naming it twice) was handled: session 1 holds one message,
\* session 2 none
C16_RepeatedIdOnce ==
    /\ DOMAIN sessions = {1, 2}
    /\ Messages(sessions[1].normal, 1) + Messages(write_buf, 1) = 1
    /\ Messages(sessions[2].normal, 2) + Messages(write_buf, 2) = 0
    /\ sessions[1].quick = << >> /\ sessions[2].quick = << >> /\ high_write_buf = << >>

Gone(tasks, live) == DOMAIN tasks \ DOMAIN live

\* C18: a session that has gone stays gone, a step notifies SessionClose for
\* a session exactly once when the session goes in that step and never
\* otherwise, and each internal trigger that is processed for a live session
\* (its task's SessionClose event, its closed flag seen by
\* distribute_to_user_level) makes it go.
C18_ClosedOnce ==
    /\ [][/\ Gone(session_tasks, sessions) \subseteq Gone(session_tasks', sessions')
          /\ \A id \in DOMAIN session_tasks' :
                 Cardinality({i \in Calls(out', "SessionClose") : out'[i].id = id}) =
                     IF id \in Gone(session_tasks', sessions') \ Gone(session_tasks, sessions)
                     THEN 1 ELSE 0]_vars
    /\ [](\A id \in DOMAIN sessions :
              /\ id \notin DOMAIN ev_session_close(Cur, id).sessions
              /\ (sessions[id].closed /\ ~shutdown)
                     => id \notin DOMAIN distribute_to_user_level(Cur).sessions)

\* a session was just closed on its closed flag (no shutdown was asked for),
\* and the SessionClose event of its task is still to come
C18_ClosedBeforeTaskEvent ==
    \E id \in Gone(session_tasks, sessions) :
        /\ Reports(id) /\ state.k # "PreShutdown"
        /\ \E i \in Calls(out, "SessionClose") : out[i].id = id

IsPrefix(p, q) == Len(p) <= Len(q) /\ SubSeq(q, 1, Len(p)) = p

\* what session s has still to take at a priority: its queue, then the events
\* for it in the write buffer of that priority
Pipeline(st, s, priority) == QueueOf(st, s, priority) \o EventsFor(BufferOf(st, priority), s)

\* C19: for a session that stays live and open, a step either is the session
\* task taking the head of a queue, or leaves the queue followed by the
\* buffered events of each priority as it was but for events added at the
\* end: what the queue accepts is the head of what waited, in its order, in
\* every dispatch round.  An event for a session already found full in the
\* round is put back even if the queue has been emptied in the meantime.
C19_OutboundFifo ==
    /\ [][\A s \in DOMAIN sessions \cap DOMAIN sessions', pr \in {High, Normal} :
              (~sessions[s].closed /\ ~sessions'[s].closed /\ sessions'[s].rx) =>
                  LET old == Cur
                      new == Cur'
                  IN  \/ /\ QueueOf(old, s, pr) # << >>
                         /\ QueueOf(new, s, pr) = Tail(QueueOf(old, s, pr))
                         /\ BufferOf(new, pr) = BufferOf(old, pr)
                      \/ /\ IsPrefix(QueueOf(old, s, pr), QueueOf(new, s, pr))
                         /\ IsPrefix(Pipeline(old, s, pr), Pipeline(new, s, pr))]_vars
    /\ [](\A s \in DOMAIN sessions, pr \in {High, Normal} :
           \A e \in {ProtocolMessage(s, p, pr) : p \in MsgProtos} \cup {SessionClose(s)} :
              LET emptied == [Cur EXCEPT !.sessions[s].normal = << >>,
                                         !.sessions[s].quick = << >>]
                  acc == distribute_one([st |-> emptied, block |-> {s}], e, pr)
              IN  /\ acc.st.sessions = emptied.sessions
                  /\ BufferOf(acc.st, pr) = Append(BufferOf(Cur, pr), e))

\* the queue of an open session is full and two different events wait for it
\* in the write buffer, in the order in which they were pushed
C19_TwoEventsWait ==
    \E s \in DOMAIN sessions :
        /\ ~sessions[s].closed
        /\ Len(sessions[s].normal) = QueueCap
        /\ EventsFor(write_buf, s) = << ProtocolMessage(s, 1, Normal), SessionClose(s) >>

\* the events for the session-level handle key in read_session_buf, in order
InboundFor(buf, key) ==
    LET ForKey(e) == << e.sid, e.proto_id >> = key
        evs == SelectSeq(buf, ForKey)
    IN  [i \in 1..Len(evs) |-> evs[i].ev]

\* what handle key has still to take: its channel, then its buffered events
Awaited(handles, buf, key) == handles[key].q \o InboundFor(buf, key)

\* C20 as stated: for every session-level handle of a session that stays
\* live, a step leaves its channel followed by its events in read_session_buf
\* as it was, but for at most one event taken at the head by the handle
\* stream and for events added at the end: events reach the channel in the
\* order of their append, also when the handle stream takes an event in the
\* middle of a dispatch round.
C20_AsStated ==
    [][\A key \in DOMAIN session_proto_handles \cap DOMAIN session_proto_handles' :
           (key[1] \in DOMAIN sessions \cap DOMAIN sessions') =>
           LET old == Awaited(session_proto_handles, read_session_buf, key)
               new == Awaited(session_proto_handles', read_session_buf', key)
           IN  \/ IsPrefix(old, new)
               \/ old # << >> /\ IsPrefix(Tail(old), new)]_vars

\* a call of distribute_to_session that took st to new sent no normal event
\* to a session for which it left a high event in high_write_buf
HighBeforeNormal(st, new) ==
    \A s \in DOMAIN st.sessions \cap DOMAIN new.sessions :
        EventsFor(new.high_write_buf, s) # << >> =>
            /\ QueueOf(new, s, Normal) = QueueOf(st, s, Normal)
            /\ EventsFor(new.write_buf, s) = EventsFor(st.write_buf, s)

\* C21: whatever the write buffers and queues hold, a call of
\* distribute_to_session sends no normal event to a session s for which a
\* high event is still held in high_write_buf when it returns: the normal
\* events for s stay in write_buf, in their order.  The same holds for the
\* call made on a ProtocolMessage task, with the pushed message counted among
\* the events held before.
C21_HighBeforeNormal ==
    /\ HighBeforeNormal(Cur, distribute_to_session(Cur))
    /\ \A t \in SessionTargets, p \in MsgProtos :
           HighBeforeNormal(push_messages(Cur, SetToSeq({id \in DOMAIN sessions : Targets(t, id)}),
                                          p, Normal),
                            task_protocol_message(Cur, t, p, Normal))

\* a round has just found the quick queue of an open session full and kept
\* a high event for it, while a normal event for it waits and its normal
\* queue has room
C21_NormalWaitsForHigh ==
    \E s \in DOMAIN sessions :
        /\ ~sessions[s].closed
        /\ EventsFor(high_write_buf, s) # << >>
        /\ EventsFor(write_buf, s) # << >>
        /\ Len(sessions[s].normal) < QueueCap
        /\ Blocked(out, s) # {}

\* the ProtocolHandleError calls of the given kind among cbs
HandleErrors(cbs, kind) ==
    {i \in 1..Len(cbs) : cbs[i].t = "ProtocolHandleError" /\ cbs[i].error = kind}

AbnormallyClosed(cbs) ==
    HandleErrors(cbs, "ServiceProtoHandleAbnormallyClosed")
        \cup HandleErrors(cbs, "SessionProtoHandleAbnormallyClosed")

\* the entries of a read buffer for a handle
ServiceEntries(buf, p) == LET ForP(e) == e.proto_id = p IN SelectSeq(buf, ForP)
SessionEntries(buf, key) == LET ForKey(e) == << e.sid, e.proto_id >> = key IN SelectSeq(buf, ForKey)

\* what distribute_to_user_level makes of st, whose read buffers hold the
\* events to dispatch
FatalOrRetriable(st) ==
    LET new == distribute_to_user_level(st)
        Flagged(sid) == sid \in DOMAIN st.sessions /\ st.sessions[sid].closed
    IN  /\ \A i \in 1..Len(st.read_service_buf) :
               LET e == st.read_service_buf[i]
                   p == e.proto_id
               IN  (p \in DOMAIN st.service_proto_handles /\ ~Flagged(e.sid)) =>
                       LET chan == st.service_proto_handles[p]
                       IN  /\ ~chan.open =>
                                  \E j \in HandleErrors(new.out, "ServiceProtoHandleAbnormallyClosed") :
                                      new.out[j].proto_id = p
                           /\ (chan.open /\ Len(chan.q) >= HandleCap) =>
                                  /\ \E j \in HandleErrors(new.out, "ServiceProtoHandleBlock") :
                                         new.out[j].proto_id = p
                                  /\ ServiceEntries(new.read_service_buf, p)
                                         = ServiceEntries(st.read_service_buf, p)
        /\ \A i \in 1..Len(st.read_session_buf) :
               LET e == st.read_session_buf[i]
                   key == << e.sid, e.proto_id >>
               IN  (key \in DOMAIN st.session_proto_handles /\ ~Flagged(e.sid)) =>
                       LET chan == st.session_proto_handles[key]
                       IN  /\ ~chan.open =>
                                  \E j \in HandleErrors(new.out, "SessionProtoHandleAbnormallyClosed") :
                                      new.out[j].id = e.sid /\ new.out[j].proto_id = e.proto_id
                           /\ (chan.open /\ Len(chan.q) >= HandleCap) =>
                                  /\ \E j \in HandleErrors(new.out, "SessionProtoHandleBlock") :
                                         new.out[j].id = e.sid /\ new.out[j].proto_id = e.proto_id
                                  /\ SessionEntries(new.read_session_buf, key)
                                         = SessionEntries(st.read_session_buf, key)
        /\ IF AbnormallyClosed(new.out) # {}
           THEN /\ new.state.k = "PreShutdown"
                /\ new.listens = << >>
                /\ Cardinality(Calls(new.out, "ListenClose")) = Len(st.listens)
                /\ \A s \in DOMAIN new.sessions :
                       Occurrences(Pipeline(new, s, Normal), SessionClose(s))
                           = Occurrences(Pipeline(st, s, Normal), SessionClose(s)) + 1
           ELSE new.state = st.state /\ new.listens = st.listens

\* C22: in every reachable state, for the read buffers as they stand and as
\* a SetProtocolNotify or SetProtocolSessionNotify task leaves them before it
\* dispatches: an event for a handle whose channel is closed is reported as
\* ProtocolHandleError of the AbnormallyClosed kind of its level, and then
\* the call ends in PreShutdown with every listener closed (one ListenClose
\* each) and one more SessionClose event requested for every session; an
\* event for a handle whose channel is full is reported with the HandleBlock
\* kind of its level and the events for that handle stay in the buffer; a
\* call that finds no closed channel changes neither state nor listens.
C22_FatalOrRetriable ==
    ~shutdown =>
        /\ FatalOrRetriable(Cur)
        /\ \A p \in DOMAIN service_proto_handles :
               FatalOrRetriable([Cur EXCEPT !.read_service_buf =
                                    Append(@, [sid |-> None, proto_id |-> p, ev |-> SetNotify])])
        /\ \A key \in DOMAIN session_proto_handles :
               FatalOrRetriable([Cur EXCEPT !.read_session_buf =
                                    Append(@, [sid |-> key[1], proto_id |-> key[2], ev |-> SetNotify])])

\* a closed handle channel has just been found while a listener and a
\* session were up: the service is in PreShutdown, the listener is closed
C22_ShutDownOnClosedHandle ==
    /\ AbnormallyClosed(out) # {}
    /\ state.k = "PreShutdown"
    /\ Calls(out, "ListenClose") # {}
    /\ DOMAIN sessions # {}

(***************************************************************************)
(* C23: immediately after Shutdown(true) the four dispatch buffers         *)
(* (high_write_buf, write_buf, read_service_buf, read_session_buf), both   *)
(* handle maps, sessions, listens and pending_tasks are empty, and the     *)
(* service handle was told SessionClose once for every session that was    *)
(* live.                                                                   *)
(***************************************************************************)
SessionCloseCalls(cbs, id) == {i \in Calls(cbs, "SessionClose") : cbs[i].id = id}

QuickShutdownClean(st) ==
    LET new == task_shutdown(st, TRUE)
    IN  /\ new.high_write_buf = << >>
        /\ new.write_buf = << >>
        /\ new.read_service_buf = << >>
        /\ new.read_session_buf = << >>
        /\ new.service_proto_handles = EmptyMap
        /\ new.session_proto_handles = EmptyMap
        /\ new.sessions = EmptyMap
        /\ new.listens = << >>
        /\ new.pending_tasks = << >>
        /\ \A id \in DOMAIN st.sessions : Cardinality(SessionCloseCalls(new.out, id)) = 1

C23_QuickShutdownClean == QuickShutdownClean(Cur)

\* Shutdown(true) has just run on two waiting messages, a waiting notify
\* event, a registered handle and a live session
C23_QuickShutdownRan ==
    /\ receivers_closed
    /\ Calls(out, "SessionClose") # {}
    /\ high_write_buf = << >> /\ write_buf = << >> /\ read_session_buf = << >>
    /\ session_proto_handles = EmptyMap

(***************************************************************************)
(* C24: after session_close(id, Internal) no dispatch buffer holds an      *)
(* entry for id, session_service_protos and sessions have no key id, and   *)
(* protocol_close(id, p, Internal) has run for every protocol p that was   *)
(* open on id before SessionClose is notified; session_close(id, External) *)
(* changes none of sessions, session_service_protos and the handle maps    *)
(* and only queues one SessionClose event for id.                          *)
(***************************************************************************)
SidEntries(buf, id) == LET ForId(e) == e.sid = id IN SelectSeq(buf, ForId)

\* the read buffers are looked at when `read` says so
InternalCloseClean(st, id, read) ==
    LET new == session_close(st, id, Internal)
        open == IF id \in DOMAIN st.session_service_protos THEN st.session_service_protos[id] ELSE {}
        told == SessionCloseCalls(new.out, id)
    IN  /\ EventsFor(new.write_buf, id) = << >>
        /\ EventsFor(new.high_write_buf, id) = << >>
        /\ read => /\ SidEntries(new.read_session_buf, id) = << >>
                   /\ SidEntries(new.read_service_buf, id) = << >>
        /\ id \notin DOMAIN new.session_service_protos
        /\ id \notin DOMAIN new.sessions
        /\ Cardinality(told) = 1
        /\ \A p \in open :
               /\ << id, p >> \notin DOMAIN new.session_proto_handles
               /\ p \in st.config.event =>
                      \E i \in Calls(new.out, "Disconnected") :
                          /\ new.out[i].id = id /\ new.out[i].proto_id = p
                          /\ \A j \in told : i < j

ExternalCloseAsks(st, id) ==
    LET new == session_close(st, id, External)
    IN  /\ DOMAIN new.sessions = DOMAIN st.sessions
        /\ new.session_service_protos = st.session_service_protos
        /\ new.service_proto_handles = st.service_proto_handles
        /\ new.session_proto_handles = st.session_proto_handles
        /\ new.read_session_buf = st.read_session_buf
        /\ new.read_service_buf = st.read_service_buf
        /\ new.state = st.state
        /\ Calls(new.out, "SessionClose") = {}
        /\ Pipeline(new, id, Normal) = Append(Pipeline(st, id, Normal), SessionClose(id))
        /\ Pipeline(new, id, High) = Pipeline(st, id, High)

C25_AsStated ==
    \A id \in DOMAIN sessions :
        LET new == session_close(Cur, id, Internal)
        IN  \A key \in DOMAIN new.session_proto_handles : key[1] # id

(***************************************************************************)
(* C26: every failed dial is recovered before it is reported: after a dial *)
(* to address a fails by a DialError event, by an outbound HandshakeFail   *)
(* or by a transport error returned to the Dial task, dial_protocols has   *)
(* no entry for a, the pending count has gone down exactly once for that   *)
(* dial, and exactly one DialerError for a is reported.                    *)
(***************************************************************************)
DialerErrors(cbs, a) == {i \in Calls(cbs, "DialerError") : cbs[i].address = a}

\* n: what the failed dial had added to the pending count
Recovered(st, new, a, n) ==
    /\ a \notin DOMAIN new.dial_protocols
    /\ st.state.k = "Running" => new.state = [st.state EXCEPT !.n = @ - n]
    /\ Cardinality(DialerErrors(new.out, a)) = 1

FailedLater(a) ==
    DialInFlight(a) =>
        /\ Recovered(Cur, ev_dial_error(Cur, a), a, 1)
        /\ Recovered(Cur, ev_handshake_fail(Cur, Outbound, a), a, 1)

FailedAtOnce(a) ==
    \A t \in DialTargets :
        (InUser /\ a \notin DOMAIN dial_protocols) =>
            Recovered(Cur, task_dial(Cur, a, t, FALSE), a, 0)

C26_AsStated == \A a \in PlainAddrs : FailedLater(a) /\ FailedAtOnce(a)

(***************************************************************************)
(* C27: for each of the four notify tasks: if the addressed handler exists *)
(* and its channel has room, the SetNotify or RemoveNotify event is in the *)
(* handler's channel when the handling of the task finishes; if the        *)
(* handler does not exist, nothing changes and no error is reported.       *)
(***************************************************************************)
HasRoom(chan) == chan.open /\ Len(chan.q) < HandleCap

\* the event is the last one in the channel and nothing for the handler
\* is left behind it in the buffer
InChannel(handles, key, entries, event) ==
    /\ key \in DOMAIN handles
    /\ handles[key].q # << >>
    /\ handles[key].q[Len(handles[key].q)] = event
    /\ entries = << >>

ServiceNotified(st, proto_id, event) ==
    LET new == task_protocol_notify(st, proto_id, event)
    IN  IF proto_id \in DOMAIN st.service_proto_handles
        THEN HasRoom(st.service_proto_handles[proto_id]) =>
                 InChannel(new.service_proto_handles, proto_id,
                           ServiceEntries(new.read_service_buf, proto_id), event)
        ELSE new = st

SessionNotified(st, new, key, event) ==
    IF key \in DOMAIN st.session_proto_handles
    THEN HasRoom(st.session_proto_handles[key]) =>
             InChannel(new.session_proto_handles, key,
                       SessionEntries(new.read_session_buf, key), event)
    ELSE new = st

SetSessionNotified(st, id, p) ==
    SessionNotified(st, task_set_session_notify(st, id, p), << id, p >>, SetNotify)

RemoveSessionNotified(st, id, p) ==
    SessionNotified(st, task_remove_session_notify(st, id, p), << id, p >>, RemoveNotify)

C27_AsStated ==
    InUser =>
        \A p \in Protos :
            /\ ServiceNotified(Cur, p, SetNotify)
            /\ ServiceNotified(Cur, p, RemoveNotify)
            /\ \A id \in TaskIds : SetSessionNotified(Cur, id, p) /\ RemoveSessionNotified(Cur, id, p)

(***************************************************************************)
(* C28: whenever the listener set changes (ListenStart, end-of-stream or   *)
(* error in listen_poll, Shutdown), before the next poll turn ends the     *)
(* listen-address snapshot of the service context equals the addresses in  *)
(* `listens` and an Update event carrying them has been queued for every   *)
(* handler.  Stated for the snapshot at the end of every poll turn.        *)
(***************************************************************************)
C28_AsStated == (pc = "idle" /\ started) => ctx_listens = listens

(***************************************************************************)
(* C29: poll returns Done only when listens is empty, state is shut down,  *)
(* sessions is empty and pending_tasks is empty, and then the shared       *)
(* shutdown flag is set before it returns; in every other state at the     *)
(* head and tail checks poll returns NotReady and leaves the flag unset;   *)
(* once the flag is set, distribute_to_session and                         *)
(* distribute_to_user_level change nothing.                                *)
(***************************************************************************)
C29_DoneSetsFlag ==
    /\ [](shutdown <=> pc = "done")
    /\ [](pc = "done" => Drained(Cur))
    /\ [][(pc = "idle" /\ pc' # "idle") => (pc' = "done" <=> Drained(Cur))]_vars
    /\ [][(pc = "user" /\ pc' # "user") => (pc' = "done" <=> Drained(Cur'))]_vars
    /\ [](shutdown => /\ distribute_to_session(Cur) = Cur
                      /\ distribute_to_user_level(Cur) = Cur)

\* poll has returned Done with a notify event still in read_session_buf
C29_DoneWithEventsLeft ==
    /\ pc = "done" /\ shutdown
    /\ read_session_buf # << >>
    /\ DOMAIN session_proto_handles # {}

(***************************************************************************)
(* C30: protocol_open(s, p, External) has an effect only if s is in        *)
(* sessions, p is not open on s and no handle (s, p) exists; then, when p  *)
(* has a session-level handle, the new handle is registered under (s, p),  *)
(* the ProtocolOpen event queued for s carries its sender, and no handle   *)
(* entry of another session is created or replaced; otherwise nothing      *)
(* changes.                                                                *)
(***************************************************************************)
MayOpen(st, id, proto_id) ==
    /\ id \in DOMAIN st.sessions
    /\ ~(id \in DOMAIN st.session_service_protos /\ proto_id \in st.session_service_protos[id])
    /\ << id, proto_id >> \notin DOMAIN st.session_proto_handles

OpenedForRequested(st, id, proto_id) ==
    LET new == protocol_open(st, id, proto_id, External)
    IN  IF MayOpen(st, id, proto_id)
        THEN proto_handle(st, TRUE, proto_id) =>
                 /\ << id, proto_id >> \in DOMAIN new.session_proto_handles
                 /\ Occurrences(Pipeline(new, id, Normal), ProtocolOpen(id, proto_id, None))
                        = Occurrences(Pipeline(st, id, Normal), ProtocolOpen(id, proto_id, None))
                 /\ \A key \in DOMAIN new.session_proto_handles :
                        key[1] # id => /\ key \in DOMAIN st.session_proto_handles
                                       /\ new.session_proto_handles[key] = st.session_proto_handles[key]
        ELSE new = st

C30_AsStated ==
    InUser => \A id \in TaskIds, p \in Protos : OpenedForRequested(Cur, id, p)

(***************************************************************************)
(* C31: a full outbound queue never loses an event: when try_send to a     *)
(* live session that is not closed reports full, the event is back in the  *)
(* write buffer of its priority when the dispatch round ends; an event     *)
(* pushed for a session is accepted by its queue, still in a write buffer, *)
(* or removed by a drop rule (ProtocolMessage for a session flagged        *)
(* closed, session channel closed, session unknown, internal session       *)
(* close, quick shutdown).                                                 *)
(***************************************************************************)
NotMessage(q) == LET Other(e) == e.t # "ProtocolMessage" IN SelectSeq(q, Other)

\* one dispatch round keeps what is queued or buffered for s
RoundKeeps(st, s, pr) ==
    LET new == distribute_to_session(st)
    IN  (s \in DOMAIN st.sessions /\ st.sessions[s].rx) =>
            /\ s \in DOMAIN new.sessions
            /\ IF st.sessions[s].closed
               THEN NotMessage(Pipeline(new, s, pr)) = NotMessage(Pipeline(st, s, pr))
               ELSE Pipeline(new, s, pr) = Pipeline(st, s, pr)
            /\ (EventsFor(BufferOf(new, pr), s) # << >> /\ ~st.sessions[s].closed) =>
                   \/ Len(QueueOf(new, s, pr)) >= QueueCap
                   \/ (~is_high(pr) /\ EventsFor(new.high_write_buf, s) # << >>)
                   \/ (~is_high(pr) /\ new.write_buf = st.write_buf)

C31_FullNeverLoses ==
    /\ [](pc # "done" => \A s \in TaskIds, pr \in {High, Normal} : RoundKeeps(Cur, s, pr))
    /\ [][\A s \in DOMAIN sessions \cap DOMAIN sessions', pr \in {High, Normal} :
              (~sessions[s].closed /\ sessions[s].rx /\ sessions'[s].rx) =>
                  \/ Len(Pipeline(Cur', s, pr)) >= Len(Pipeline(Cur, s, pr))
                  \/ /\ QueueOf(Cur, s, pr) # << >>
                     /\ QueueOf(Cur', s, pr) = Tail(QueueOf(Cur, s, pr))
                     /\ EventsFor(BufferOf(Cur', pr), s) = EventsFor(BufferOf(Cur, pr), s)]_vars

\* a high-priority event found the queue of an open session full and is
\* back in high_write_buf at the end of the round
C31_HighEventPutBack ==
    \E s \in DOMAIN sessions :
        /\ ~sessions[s].closed /\ sessions[s].rx
        /\ Len(sessions[s].quick) = QueueCap
        /\ EventsFor(high_write_buf, s) # << >>
        /\ Blocked(out, s) # {}
        /\ delay

(***************************************************************************)
(* C32: head-of-line blocking is per destination only: in one dispatch     *)
(* round, once a destination (a session for the write buffers, a protocol  *)
(* for read_service_buf) is found full, no later event for it is sent in   *)
(* that round, while every event of the same buffer for a destination that *)
(* is not full is still sent; a full destination never causes an event for *)
(* another destination to be re-queued or dropped.                         *)
(***************************************************************************)
FirstN(q, n) == SubSeq(q, 1, IF n < Len(q) THEN n ELSE Len(q))
Rest(q, n) == SubSeq(q, (IF n < Len(q) THEN n ELSE Len(q)) + 1, Len(q))
Room(q) == IF Len(q) < QueueCap THEN QueueCap - Len(q) ELSE 0
HandleRoom(chan) == IF Len(chan.q) < HandleCap THEN HandleCap - Len(chan.q) ELSE 0
EventsOf(buf) == [i \in 1..Len(buf) |-> buf[i].ev]

\* the write buffers: session s in one round of distribute_to_session
SessionLine(st, s) ==
    LET new == distribute_to_session(st)
        high == EventsFor(st.high_write_buf, s)
        normal == EventsFor(st.write_buf, s)
        hr == Room(QueueOf(st, s, High))
        nr == IF Len(high) > hr THEN 0 ELSE Room(QueueOf(st, s, Normal))
        full == Len(high) > hr \/ Len(normal) > nr
    IN  /\ QueueOf(new, s, High) = QueueOf(st, s, High) \o FirstN(high, hr)
        /\ EventsFor(new.high_write_buf, s) = Rest(high, hr)
        /\ QueueOf(new, s, Normal) = QueueOf(st, s, Normal) \o FirstN(normal, nr)
        /\ EventsFor(new.write_buf, s) = Rest(normal, nr)
        /\ (Blocked(new.out, s) # {}) <=> full

\* read_service_buf: protocol p in one round of distribute_to_user_level
ProtocolLine(st, p) ==
    LET new == distribute_to_user_level(st)
        waiting == EventsOf(ServiceEntries(st.read_service_buf, p))
        room == HandleRoom(st.service_proto_handles[p])
    IN  /\ new.service_proto_handles[p].q = st.service_proto_handles[p].q \o FirstN(waiting, room)
        /\ EventsOf(ServiceEntries(new.read_service_buf, p)) = Rest(waiting, room)
        /\ (\E i \in HandleErrors(new.out, "ServiceProtoHandleBlock") : new.out[i].proto_id = p)
               <=> Len(waiting) > room

C32_PerDestination ==
    pc # "done" =>
        /\ \A s \in DOMAIN sessions :
               (sessions[s].rx /\ ~sessions[s].closed) => SessionLine(Cur, s)
        /\ \A p \in DOMAIN service_proto_handles :
               service_proto_handles[p].open => ProtocolLine(Cur, p)

\* after a round one session is held back with its queue full while the
\* other has taken its event, and likewise for the two protocol handles
C32_OneHeldOtherServed ==
    /\ \E s, t \in DOMAIN sessions :
           /\ s # t
           /\ EventsFor(write_buf, s) # << >> /\ Len(sessions[s].normal) = QueueCap
           /\ EventsFor(write_buf, t) = << >> /\ sessions[t].normal # << >>
    /\ \E p, q \in DOMAIN service_proto_handles :
           /\ p # q
           /\ ServiceEntries(read_service_buf, p) # << >>
           /\ ServiceEntries(read_service_buf, q) = << >> /\ service_proto_handles[q].q # << >>

(***************************************************************************)
(* C33: the order and the limits of user_task_poll                         *)
(***************************************************************************)
\* what user_task_poll does from st with the two channels holding quick and normal
TaskOrderKept(st, quick, normal) ==
    LET r == user_task_poll(st, quick, normal)
    IN  /\ Len(r.log) <= UserTaskLimit
        /\ \A i \in 1..Len(r.log) :
               /\ r.log[i].from = "normal" =>
                      r.log[i].quick = 0 /\ r.log[i].write <= SendEventSize
               /\ ~(r.log[i].write > SendEventSize /\ r.log[i].high > SendEventSize)
        /\ (r.quick # << >> \/ r.normal # << >>) => r.st.delay

\* C33: in user_task_poll a task of the normal channel is handled only in an
\* iteration where the quick channel gave no task and write_buf holds at most
\* send_event_size entries, no task is taken once both write buffers exceed
\* send_event_size, at most 512 tasks are taken, and a turn that leaves a task
\* in a channel has a delayed self-wake pending.
C33_AsStated ==
    pc = "user" =>
        \A quick \in QuickChannel, normal \in NormalChannel : TaskOrderKept(Cur, quick, normal)

(***************************************************************************)
(* C34: one ListenClose for every listener that leaves `listens`           *)
(***************************************************************************)
Listeners(ls, a) == Cardinality({i \in 1..Len(ls) : ls[i] = a})

Closes(cbs, a) == Cardinality({i \in Calls(cbs, "ListenClose") : cbs[i].address = a})

Starts(cbs, a) == Cardinality({i \in Calls(cbs, "ListenStarted") : cbs[i].address = a})

\* the listeners at address a that the poll results take out of st.listens
PolledOut(st, results, a, kinds) ==
    {i \in 1..Len(st.listens) : st.listens[i] = a /\ results[i].k \in kinds}

ListenPollNotifies(st, results) ==
    LET new == listen_poll(st, results)
        failed == {i \in Calls(new.out, "ListenError") : new.out[i].error = "IoError"}
    IN  \A a \in ListenAddrs :
            /\ Closes(new.out, a) = Cardinality(PolledOut(st, results, a, {"end", "err"}))
            /\ Listeners(new.listens, a)
                   = Cardinality(PolledOut(st, results, a, {"accept", "notready"}))
            /\ Cardinality({i \in failed : new.out[i].address = a})
                   = Cardinality(PolledOut(st, results, a, {"err"}))
            /\ \A i \in failed :
                   /\ i < Len(new.out)
                   /\ new.out[i + 1].t = "ListenClose"
                   /\ new.out[i + 1].address = new.out[i].address

ShutdownNotifies(st, quick) ==
    LET new == task_shutdown(st, quick)
    IN  /\ new.listens = << >>
        /\ \A a \in ListenAddrs : Closes(new.out, a) = Listeners(st.listens, a)

\* C34: listen_poll removes exactly the listeners that have ended or failed
\* and reports one ListenClose for each (after the ListenError of a failed
\* one), a Shutdown task removes every listener and reports one ListenClose
\* for each, and in every step the ListenClose events for an address are as
\* many as the listeners at that address that have left `listens`.
C34_OneClosePerListener ==
    /\ [](pc = "listen" =>
              \A results \in [1..Len(listens) -> ListenResults] :
                  ListenPollNotifies(Cur, results))
    /\ [](pc = "user" => \A quick \in BOOLEAN : ShutdownNotifies(Cur, quick))
    /\ [][\A a \in ListenAddrs :
              Closes(out', a) = Listeners(listens, a) + Starts(out', a) - Listeners(listens', a)]_vars

\* a listener has ended and was reported while another one stays
C34_OneClosedOneStays ==
    \E a \in ListenAddrs : Closes(out, a) = 1 /\ Listeners(listens, a) = 1 /\ pc = "session"

(***************************************************************************)
(* C35: no lost wake-up in the delayed self-wake                           *)
(***************************************************************************)
\* C35: every call of set_delay is followed by a notification of the task
\* that called it, however the two steps of the delay task interleave with
\* the polls of that task.
C35_AsStated == asked ~> ~asked

(***************************************************************************)
(* C36: the callbacks about a session lie between its SessionOpen and its  *)
(* SessionClose                                                            *)
(***************************************************************************)
SessionCallbacks ==
    {"Connected", "Received", "Disconnected", "SessionBlocked", "SessionTimeout",
     "MuxerError", "ProtocolSelectError"}

\* a callback of kind t about session s comes before the i-th one
Before(cbs, i, t, s) == \E j \in 1..(i - 1) : cbs[j].t = t /\ cbs[j].id = s

\* protocol p of session s is recorded as open
RecordedOpen(st, s, p) ==
    /\ s \in DOMAIN st.sessions
    /\ s \in DOMAIN st.session_service_protos
    /\ p \in st.session_service_protos[s]

\* a step from st to new that made the callbacks cbs: a session is in
\* `sessions` exactly from its SessionOpen to its SessionClose, ids are fresh,
\* the callbacks about a session are made while it is in `sessions`, and an
\* event protocol recorded as open stays recorded until its Disconnected
Bracketed(st, new, cbs) ==
    /\ new.next_session >= st.next_session
    /\ \A i \in 1..Len(cbs) :
           LET s == cbs[i].id
           IN  /\ cbs[i].t \in SessionCallbacks =>
                      /\ s \in DOMAIN st.sessions \/ Before(cbs, i, "SessionOpen", s)
                      /\ ~Before(cbs, i, "SessionClose", s)
               /\ cbs[i].t = "SessionOpen" =>
                      /\ s > st.next_session /\ s <= new.next_session
                      /\ ~Before(cbs, i, "SessionOpen", s)
               /\ cbs[i].t = "SessionClose" =>
                      /\ s \in DOMAIN st.sessions \/ Before(cbs, i, "SessionOpen", s)
                      /\ ~Before(cbs, i, "SessionClose", s)
                      /\ s \notin DOMAIN new.sessions
               /\ cbs[i].t = "Connected" =>
                      \/ RecordedOpen(new, s, cbs[i].proto_id)
                      \/ \E j \in (i + 1)..Len(cbs) :
                             /\ cbs[j].t = "Disconnected" /\ cbs[j].id = s
                             /\ cbs[j].proto_id = cbs[i].proto_id
                             /\ ~Before(cbs, j, "SessionClose", s)
    /\ \A s \in DOMAIN st.sessions : s <= st.next_session
    /\ \A s \in DOMAIN new.sessions \ DOMAIN st.sessions :
           \E i \in 1..Len(cbs) : cbs[i].t = "SessionOpen" /\ cbs[i].id = s
    /\ \A s \in DOMAIN st.sessions \ DOMAIN new.sessions :
           \E i \in 1..Len(cbs) : cbs[i].t = "SessionClose" /\ cbs[i].id = s
    /\ \A s \in DOMAIN st.sessions, p \in st.config.event :
           (RecordedOpen(st, s, p) /\ ~RecordedOpen(new, s, p)) =>
               \E i \in 1..Len(cbs) :
                   /\ cbs[i].t = "Disconnected" /\ cbs[i].id = s /\ cbs[i].proto_id = p
                   /\ ~Before(cbs, i, "SessionClose", s)

\* what a SessionTimeout, MuxerError or ProtocolSelectError event leads to
ErrorBracketed(st, kind, id) ==
    LET new == ev_session_error(st, kind, id) IN Bracketed(st, new, new.out)

\* C36: in every step, SessionOpen(s) is notified when s enters `sessions`
\* under a fresh id and SessionClose(s) when it leaves; Connected, Received,
\* Disconnected, SessionBlocked, SessionTimeout, MuxerError and
\* ProtocolSelectError about s are made only after SessionOpen(s) and before
\* SessionClose(s); and an event protocol that was Connected is Disconnected
\* before the SessionClose of its session.
C36_Bracketed ==
    /\ [][Bracketed(Cur, Cur', out')]_vars
    /\ [](pc = "session" =>
              \A id \in TaskIds, kind \in {"SessionTimeout", "MuxerError", "ProtocolSelectError"} :
                  ErrorBracketed(Cur, kind, id))

\* a session with an open event protocol is closed: Disconnected, then SessionClose
C36_DisconnectedThenClosed ==
    \E i, j \in 1..Len(out) :
        /\ i < j
        /\ out[i].t = "Disconnected" /\ out[j].t = "SessionClose" /\ out[i].id = out[j].id

(***************************************************************************)
(* C37: buffered messages are addressed to sessions that exist             *)
(***************************************************************************)
\* the entries of a write buffer that are checked: all, or the messages only
Addressed(buf, all) == {i \in 1..Len(buf) : all \/ buf[i].t = "ProtocolMessage"}

\* C37: between handler calls every entry of high_write_buf and every
\* ProtocolMessage entry of write_buf is addressed to a key of `sessions`.
C37_BuffersAddressLive ==
    /\ \A i \in Addressed(high_write_buf, TRUE) : high_write_buf[i].id \in DOMAIN sessions
    /\ \A i \in Addressed(write_buf, FALSE) : write_buf[i].id \in DOMAIN sessions

\* a session has been closed while messages of both priorities wait for another
C37_MessagesOutliveOther ==
    /\ Addressed(high_write_buf, TRUE) # {}
    /\ Addressed(write_buf, FALSE) # {}
    /\ \E s \in 1..next_session : s \notin DOMAIN sessions

(***************************************************************************)
(* C38: entries of write_buf for sessions that do not exist                *)
(***************************************************************************)
\* the entries of buf addressed to no key of st.sessions
Orphans(st, buf) == {i \in 1..Len(buf) : buf[i].id \notin DOMAIN st.sessions}

\* C38: a call of distribute_to_session leaves in write_buf no entry that is
\* addressed to an id that is not in `sessions`, also when `sessions` is
\* empty, so write_buf is never kept above send_event_size by such entries.
C38_AsStated ==
    pc # "done" =>
        LET new == distribute_to_session(Cur)
        IN  /\ Orphans(new, new.write_buf) = {}
            /\ Len(new.write_buf) > SendEventSize =>
                   \E i \in 1..Len(new.write_buf) : new.write_buf[i].id \in DOMAIN new.sessions

(***************************************************************************)
(* C39: no poll of the session-event receiver after a quick shutdown       *)
(***************************************************************************)
\* C39: once a Shutdown(true) task has closed the receivers, the turn that
\* handled it ends with Done at the tail check: poll does not go on to
\* another turn, and session_poll never polls the closed receiver.
C39_AsStated == receivers_closed => pc \in {"user", "done"}

(***************************************************************************)
(* C40: open-protocol records only for sessions that exist                 *)
(***************************************************************************)
\* C40: between handler calls every key of session_service_protos is a key
\* of `sessions`; a ProtocolOpen event for a session that is not in
\* `sessions` leaves no record.
C40_AsStated == DOMAIN session_service_protos \subseteq DOMAIN sessions

====
